---- MODULE Spec2Model ----
(***************************************************************************)
(* Technical-analysis and backtesting core of the crypto dashboard.        *)
(*                                                                         *)
(* Numbers.  Candle prices and volumes are integers.  Indicator values     *)
(* (JavaScript doubles in the source) are fixed-point integers: the real   *)
(* value v is held as round(v * Scale).  A value of type number|null is a  *)
(* sequence: <<>> is null, <<x>> is the finite number x, and <<0, 0>> is   *)
(* NaN.  Money in the backtests (capital, position, pnl) is held as exact  *)
(* rationals <<numerator, denominator>>.                                   *)
(*                                                                         *)
(* Indices.  The source's arrays are 0-based; the model keeps the source's *)
(* index i and reads the sequence element i + 1.                           *)
(***************************************************************************)
EXTENDS Integers, Sequences, FiniteSets, TLC

VARIABLES candles, config, impl, pc, i, ind, rt, st, result, analysis

vars == <<candles, config, impl, pc, i, ind, rt, st, result, analysis>>

-----------------------------------------------------------------------------
(* Fixed-point arithmetic for indicator values *)

Scale == 10 * 10

Null == <<>>

NaN == <<0, 0>>

Num(x) == <<x>>

IsNull(v) == Len(v) = 0

IsNum(v) == Len(v) = 1

IsNaN(v) == Len(v) = 2

Val(v) == v[1]

Abs(x) == IF x < 0 THEN -x ELSE x

Min(a, b) == IF a < b THEN a ELSE b

Max(a, b) == IF a > b THEN a ELSE b

\* a / b rounded to the nearest integer, b > 0
Div(a, b) == IF a >= 0 THEN (2 * a + b) \div (2 * b) ELSE -((2 * (-a) + b) \div (2 * b))

\* fixed-point product and quotient
FMul(a, b) == Div(a * b, Scale)

FDiv(a, b) == IF b > 0 THEN Div(a * Scale, b) ELSE -Div(a * Scale, -b)

\* y, with x evaluated first.  The loops of the source are folded over an index
\* range split in halves, the left half evaluated before the right one starts.
Strict(x, y) == IF x = x THEN y ELSE y

RECURSIVE SqrtSearch(_, _, _)
SqrtSearch(x, lo, hi) ==
    IF lo >= hi THEN lo
    ELSE LET mid == (lo + hi + 1) \div 2
         IN IF mid * mid <= x THEN SqrtSearch(x, mid, hi) ELSE SqrtSearch(x, lo, mid - 1)

\* floor of the square root of a non-negative integer
ISqrt(x) == SqrtSearch(x, 0, Min(x, 46340))

\* Math.sqrt on a fixed-point value
FSqrt(a) == ISqrt(a * Scale)

RECURSIVE SumRange(_, _, _)
\* data[from] + ... + data[to], 1-based, 0 when the range is empty
SumRange(data, from, to) ==
    IF from > to THEN 0
    ELSE IF from = to THEN data[from]
    ELSE LET mid == (from + to) \div 2
         IN SumRange(data, from, mid) + SumRange(data, mid + 1, to)

-----------------------------------------------------------------------------
(* Exact rationals for money *)

RECURSIVE GCD(_, _)
GCD(a, b) == IF b = 0 THEN a ELSE GCD(b, a % b)

RNorm(n, d) ==
    LET g == GCD(Abs(n), Abs(d))
        s == IF d < 0 THEN -1 ELSE 1
    IN IF n = 0 THEN <<0, 1>> ELSE <<s * (n \div g), s * (d \div g)>>

RInt(n) == <<n, 1>>

RNeg(a) == <<-a[1], a[2]>>

RAdd(a, b) ==
    LET g == GCD(a[2], b[2])
    IN RNorm(a[1] * (b[2] \div g) + b[1] * (a[2] \div g), (a[2] \div g) * b[2])

RSub(a, b) == RAdd(a, RNeg(b))

RMul(a, b) ==
    LET g1 == GCD(Abs(a[1]), b[2])
        g2 == GCD(Abs(b[1]), a[2])
    IN IF a[1] = 0 \/ b[1] = 0 THEN <<0, 1>>
       ELSE RNorm((a[1] \div g1) * (b[1] \div g2), (a[2] \div g2) * (b[2] \div g1))

\* a / b, b # 0
RDiv(a, b) == RMul(a, RNorm(b[2], b[1]))

RSign(a) == IF a[1] > 0 THEN 1 ELSE IF a[1] < 0 THEN -1 ELSE 0

RLt(a, b) == RSign(RSub(a, b)) < 0

RLe(a, b) == RSign(RSub(a, b)) <= 0

RGt(a, b) == RLt(b, a)

RGe(a, b) == RLe(b, a)

RECURSIVE RSum(_)
RSum(s) == IF s = <<>> THEN <<0, 1>> ELSE RAdd(s[1], RSum(Tail(s)))

-----------------------------------------------------------------------------
(* Candle series the model runs on *)

\* number of candles appended after the 50-candle history
MaxTail == 3

Shapes == {"crash", "rally", "flat", "zig"}

\* close of candle j (0-based) of a 50-candle history, each ending at 480
ShapeClose(shape, j) ==
    CASE shape = "crash" -> IF j < 40 THEN 900 - 10 * j ELSE 489 - (j - 40)
      [] shape = "rally" -> 88 + 8 * j
      [] shape = "flat"  -> 480
      [] shape = "zig"   -> IF j % 2 = 0 THEN 490 ELSE 480

Candle(h, l, c, v) == [high |-> h, low |-> l, close |-> c, volume |-> v]

History(shape, len) ==
    [k \in 1..len |->
        LET c == ShapeClose(shape, k - 1) IN Candle(c + 1, c - 1, c, 100)]

Kinds == {"flat", "jump", "dive", "wick"}

\* the candle of a given kind that follows a candle closing at prev
NextCandle(prev, kind) ==
    CASE kind = "flat" -> Candle(prev + 1, prev - 1, prev, 100)
      [] kind = "jump" -> Candle(prev + 61, prev - 1, prev + 60, 300)
      [] kind = "dive" -> Candle(prev + 1, prev - 61, prev - 60, 300)
      [] kind = "wick" -> Candle(prev + 110, prev - 110, prev, 100)

RECURSIVE Extend(_, _)
Extend(series, kinds) ==
    IF kinds = <<>> THEN series
    ELSE Extend(Append(series, NextCandle(series[Len(series)].close, Head(kinds))), Tail(kinds))

Tails == UNION {[1..k -> Kinds] : k \in 0..MaxTail}

Closes(series) == [k \in 1..Len(series) |-> series[k].close * Scale]

Volumes(series) == [k \in 1..Len(series) |-> series[k].volume * Scale]

-----------------------------------------------------------------------------
(* Candle series the analysis runs on *)

\* number of candles appended to the series handed to performTechnicalAnalysis
MaxFeed == 2

AnalysisShapes == {"slide", "climb", "dip", "peak", "wave", "flat"}

AnalysisLengths == {12, 60, 200}

\* close of the candle m places before the last one
AnalysisClose(shape, m) ==
    CASE shape = "slide" -> 480 + 5 * m
      [] shape = "climb" -> 480 - 2 * m
      [] shape = "dip"   -> IF m >= 10 THEN 480 - 2 * (m - 10) ELSE 400 + 8 * m
      [] shape = "peak"  -> IF m >= 10 THEN 480 + 2 * (m - 10) ELSE 560 - 8 * m
      [] shape = "wave"  -> 480 + (IF m % 6 <= 3 THEN 2 * (m % 6) ELSE 2 * (6 - (m % 6)))
      [] shape = "flat"  -> 480

AnalysisHistory(shape, len) ==
    [k \in 1..len |->
        LET c == AnalysisClose(shape, len - k) IN Candle(c + 1, c - 1, c, 100)]

AnalysisInputs ==
    {Extend(AnalysisHistory(shape, len), tail) :
        shape \in AnalysisShapes, len \in AnalysisLengths,
        tail \in UNION {[1..k -> Kinds] : k \in 0..MaxFeed}}

-----------------------------------------------------------------------------
(* Series math and indicator arrays (technical-analysis module) *)

calculateSMA(data, period) ==
    [k \in 1..Len(data) |->
        IF k - 1 < period - 1 THEN Null
        ELSE Num(Div(SumRange(data, k - period + 1, k), period))]

\* one iteration of the loop of calculateEMA, at 1-based position k
EMAStep(data, period, k, s) ==
    IF k - 1 < period - 1 THEN [ema |-> s.ema, result |-> Append(s.result, Null)]
    ELSE IF k - 1 = period - 1
         THEN LET e == Div(SumRange(data, 1, period), period)
              IN [ema |-> e, result |-> Append(s.result, Num(e))]
    ELSE LET e == Div((data[k] - s.ema) * 2, period + 1) + s.ema
         IN [ema |-> e, result |-> Append(s.result, Num(e))]

RECURSIVE EMALoop(_, _, _, _, _)
EMALoop(data, period, lo, hi, s) ==
    IF lo > hi THEN s
    ELSE IF lo = hi THEN EMAStep(data, period, lo, s)
    ELSE LET mid == (lo + hi) \div 2
             left == EMALoop(data, period, lo, mid, s)
         IN Strict(left, EMALoop(data, period, mid + 1, hi, left))

calculateEMA(data, period) ==
    EMALoop(data, period, 1, Len(data), [ema |-> 0, result |-> <<>>]).result

calculateStdDev(data, period) ==
    [k \in 1..Len(data) |->
        IF k - 1 < period - 1 THEN Null
        ELSE LET mean == Div(SumRange(data, k - period + 1, k), period)
                 squaredDiffs == [m \in 1..period |->
                                    FMul(data[k - period + m] - mean, data[k - period + m] - mean)]
                 variance == Div(SumRange(squaredDiffs, 1, period), period)
             IN Num(FSqrt(variance))]

\* variant: 100 * rs in place of 100 - 100 / (1 + rs)
RSIValue_Ratio(avgGain, avgLoss) ==
    Div(100 * Scale * avgGain, avgLoss)

\* 100 - 100 / (1 + rs) with rs = avgGain / avgLoss, avgLoss # 0; the quotient
\* 100 / (1 + avgGain / avgLoss) is taken as 100 * avgLoss / (avgLoss + avgGain) so
\* that it is rounded once
RSIValue(avgGain, avgLoss) ==
    100 * Scale - Div(100 * Scale * avgLoss, avgLoss + avgGain)

\* lines 108-113 and 126-131: the avgLoss === 0 guard
RSIFromAverages(avgGain, avgLoss) ==
    IF avgLoss = 0 THEN 100 * Scale ELSE RSIValue(avgGain, avgLoss)

\* variant: the seed value at index period is left out
calculateRSI_Late(closes, period) ==
    LET gains == [k \in 1..(Len(closes) - 1) |->
                    IF closes[k + 1] - closes[k] > 0 THEN closes[k + 1] - closes[k] ELSE 0]
        losses == [k \in 1..(Len(closes) - 1) |->
                    IF closes[k + 1] - closes[k] < 0 THEN Abs(closes[k + 1] - closes[k]) ELSE 0]
    IN [k \in 1..Len(closes) |->
          LET idx == k - 1 IN
          IF idx <= period THEN Null
          ELSE LET prevAvgGain == Div(SumRange(gains, idx - period + 1, idx), period)
                   prevAvgLoss == Div(SumRange(losses, idx - period + 1, idx), period)
                   avgGain == Div(prevAvgGain * (period - 1) + gains[idx], period)
                   avgLoss == Div(prevAvgLoss * (period - 1) + losses[idx], period)
               IN Num(RSIFromAverages(avgGain, avgLoss))]

calculateRSI(closes, period) ==
    LET gains == [k \in 1..(Len(closes) - 1) |->
                    IF closes[k + 1] - closes[k] > 0 THEN closes[k + 1] - closes[k] ELSE 0]
        losses == [k \in 1..(Len(closes) - 1) |->
                    IF closes[k + 1] - closes[k] < 0 THEN Abs(closes[k + 1] - closes[k]) ELSE 0]
    IN [k \in 1..Len(closes) |->
          LET idx == k - 1 IN
          IF idx < period THEN Null
          ELSE IF idx = period
               THEN Num(RSIFromAverages(Div(SumRange(gains, 1, period), period),
                                        Div(SumRange(losses, 1, period), period)))
          ELSE LET prevAvgGain == Div(SumRange(gains, idx - period + 1, idx), period)
                   prevAvgLoss == Div(SumRange(losses, idx - period + 1, idx), period)
                   avgGain == Div(prevAvgGain * (period - 1) + gains[idx], period)
                   avgLoss == Div(prevAvgLoss * (period - 1) + losses[idx], period)
               IN Num(RSIFromAverages(avgGain, avgLoss))]

calculateMACD(closes) ==
    LET ema12 == calculateEMA(closes, 12)
        ema26 == calculateEMA(closes, 26)
        macdLine == [k \in 1..Len(closes) |->
                        IF IsNull(ema12[k]) \/ IsNull(ema26[k]) THEN Null
                        ELSE Num(Val(ema12[k]) - Val(ema26[k]))]
        validMacd == [k \in 1..Len(closes) |-> IF IsNull(macdLine[k]) THEN 0 ELSE Val(macdLine[k])]
        signalLine == calculateEMA(validMacd, 9)
        histogram == [k \in 1..Len(closes) |->
                        IF IsNull(macdLine[k]) \/ IsNull(signalLine[k]) THEN Null
                        ELSE Num(Val(macdLine[k]) - Val(signalLine[k]))]
    IN [macd |-> macdLine, signal |-> signalLine, histogram |-> histogram]

calculateBollingerBands(closes, period, stdDevMultiplier) ==
    LET middle == calculateSMA(closes, period)
        stdDev == calculateStdDev(closes, period)
        \* the values pushed by one iteration of the loop
        bands == [k \in 1..Len(closes) |->
                    LET m == middle[k]
                        sd == stdDev[k]
                    IN IF IsNull(m) \/ IsNull(sd)
                       THEN [upper |-> Null, lower |-> Null, width |-> Null]
                       ELSE LET upperBand == Val(m) + stdDevMultiplier * Val(sd)
                                lowerBand == Val(m) - stdDevMultiplier * Val(sd)
                            IN [upper |-> Num(upperBand),
                                lower |-> Num(lowerBand),
                                width |-> IF Val(m) # 0
                                          THEN Num(FDiv(upperBand - lowerBand, Val(m)))
                                          ELSE Null]]
    IN [upper  |-> [k \in 1..Len(closes) |-> bands[k].upper],
        middle |-> middle,
        lower  |-> [k \in 1..Len(closes) |-> bands[k].lower],
        width  |-> [k \in 1..Len(closes) |-> bands[k].width]]

\* array[idx] of an array of the given length, with the source's 0-based index;
\* undefined (out of range) reads as null
AtLen(array, len, idx) == IF idx >= 0 /\ idx < len THEN array[idx + 1] ELSE Null

\* lines 141-149
getRSISignal(rsi) ==
    IF rsi <= 20 * Scale THEN [signal |-> "STRONG_OVERSOLD", strength |-> 5]
    ELSE IF rsi <= 30 * Scale THEN [signal |-> "OVERSOLD", strength |-> 4]
    ELSE IF rsi <= 40 * Scale THEN [signal |-> "SLIGHTLY_OVERSOLD", strength |-> 2]
    ELSE IF rsi >= 80 * Scale THEN [signal |-> "STRONG_OVERBOUGHT", strength |-> -5]
    ELSE IF rsi >= 70 * Scale THEN [signal |-> "OVERBOUGHT", strength |-> -4]
    ELSE IF rsi >= 60 * Scale THEN [signal |-> "SLIGHTLY_OVERBOUGHT", strength |-> -2]
    ELSE [signal |-> "NEUTRAL", strength |-> 0]

\* lines 201-227; the 0.5 of the source is Scale / 2
getMACDSignal(macd, signal, histogram, prevHistogram) ==
    IF IsNull(macd) \/ IsNull(signal) \/ IsNull(histogram)
    THEN [signal |-> "NEUTRAL", strength |-> 0]
    ELSE IF IsNum(prevHistogram) /\ Val(histogram) > 0 /\ Val(prevHistogram) <= 0
    THEN [signal |-> "BULLISH_CROSSOVER", strength |-> 4]
    ELSE IF IsNum(prevHistogram) /\ Val(histogram) < 0 /\ Val(prevHistogram) >= 0
    THEN [signal |-> "BEARISH_CROSSOVER", strength |-> -4]
    ELSE IF Val(histogram) > 0
    THEN [signal |-> "BULLISH", strength |-> IF 2 * Val(histogram) > Scale THEN 2 ELSE 1]
    ELSE [signal |-> "BEARISH", strength |-> IF 2 * Val(histogram) < -Scale THEN -2 ELSE -1]

\* lines 281-304 (the %B position is not modelled)
getBollingerSignal(price, upper, middle, lower) ==
    IF IsNull(upper) \/ IsNull(middle) \/ IsNull(lower)
    THEN [signal |-> "NEUTRAL", strength |-> 0]
    ELSE IF price > Val(upper) THEN [signal |-> "ABOVE_UPPER", strength |-> -3]
    ELSE IF price < Val(lower) THEN [signal |-> "BELOW_LOWER", strength |-> 3]
    ELSE IF price > Val(middle) THEN [signal |-> "UPPER_HALF", strength |-> 1]
    ELSE [signal |-> "LOWER_HALF", strength |-> -1]

\* lines 311-333, on integer prices; exact rationals
calculatePivotPoints(high, low, close) ==
    LET pivot == RNorm(high + low + close, 3)
    IN [pivot |-> pivot,
        r1 |-> RSub(RMul(RInt(2), pivot), RInt(low)),
        s1 |-> RSub(RMul(RInt(2), pivot), RInt(high)),
        r2 |-> RAdd(pivot, RInt(high - low)),
        s2 |-> RSub(pivot, RInt(high - low))]

\* lines 356-392: the levels pushed at 1-based position k of recentCandles
LevelsAt(rc, k) ==
    (IF /\ rc[k].high > rc[k - 1].high /\ rc[k].high > rc[k - 2].high
        /\ rc[k].high > rc[k + 1].high /\ rc[k].high > rc[k + 2].high
     THEN <<[price |-> RInt(rc[k].high), type |-> "resistance", strength |-> 1, touches |-> 1]>>
     ELSE <<>>)
    \o
    (IF /\ rc[k].low < rc[k - 1].low /\ rc[k].low < rc[k - 2].low
        /\ rc[k].low < rc[k + 1].low /\ rc[k].low < rc[k + 2].low
     THEN <<[price |-> RInt(rc[k].low), type |-> "support", strength |-> 1, touches |-> 1]>>
     ELSE <<>>)

RECURSIVE LevelsLoop(_, _, _)
\* the loop of lines 355-393 over positions lo..hi
LevelsLoop(rc, lo, hi) ==
    IF lo > hi THEN <<>>
    ELSE IF lo = hi THEN LevelsAt(rc, lo)
    ELSE LET mid == (lo + hi) \div 2
         IN LevelsLoop(rc, lo, mid) \o LevelsLoop(rc, mid + 1, hi)

\* Array.prototype.sort (stable) by price, ascending for dir = 1, descending for dir = -1
SortLevels(levels, dir) ==
    LET n == Len(levels)
        before(a, b) == IF dir = 1 THEN RLt(a.price, b.price) ELSE RGt(a.price, b.price)
        rank == [j \in 1..n |->
                    Cardinality({m \in 1..n :
                        \/ before(levels[m], levels[j])
                        \/ (~before(levels[j], levels[m]) /\ m < j)})]
    IN Strict(rank, [k \in 1..n |-> levels[CHOOSE j \in 1..n : rank[j] = k - 1]])

\* variant: nothing is merged, every candidate becomes a level of its own
MergeStep_Append(mergedLevels, level, threshold) ==
    Append(mergedLevels, level)

\* variant: a merge counts the touch but leaves the price of the level as it was
MergeStep_KeepsPrice(mergedLevels, level, threshold) ==
    LET near(l) == /\ l.type = level.type
                   /\ RLt(RDiv(RSub(l.price, level.price), level.price), threshold)
                   /\ RLt(RDiv(RSub(level.price, l.price), level.price), threshold)
        hits == {m \in 1..Len(mergedLevels) : near(mergedLevels[m])}
    IN IF hits # {}
       THEN LET m == CHOOSE x \in hits : \A y \in hits : x <= y
                nearby == mergedLevels[m]
            IN [mergedLevels EXCEPT ![m] =
                   [nearby EXCEPT
                      !.touches = nearby.touches + 1,
                      !.strength = Min(5, nearby.touches + 1)]]
       ELSE Append(mergedLevels, level)

\* lines 400-410: one iteration of the merge loop
MergeStep(mergedLevels, level, threshold) ==
    LET near(l) == /\ l.type = level.type
                   /\ RLt(RDiv(RSub(l.price, level.price), level.price), threshold)
                   /\ RLt(RDiv(RSub(level.price, l.price), level.price), threshold)
        hits == {m \in 1..Len(mergedLevels) : near(mergedLevels[m])}
    IN IF hits # {}
       THEN LET m == CHOOSE x \in hits : \A y \in hits : x <= y
                nearby == mergedLevels[m]
            IN [mergedLevels EXCEPT ![m] =
                   [nearby EXCEPT
                      !.price = RDiv(RAdd(RMul(nearby.price, RInt(nearby.touches)), level.price),
                                     RInt(nearby.touches + 1)),
                      !.touches = nearby.touches + 1,
                      !.strength = Min(5, nearby.touches + 1)]]
       ELSE Append(mergedLevels, level)

RECURSIVE MergeLoop(_, _, _, _, _)
MergeLoop(sortedLevels, lo, hi, mergedLevels, threshold) ==
    IF lo > hi THEN mergedLevels
    ELSE IF lo = hi THEN MergeStep(mergedLevels, sortedLevels[lo], threshold)
    ELSE LET mid == (lo + hi) \div 2
             left == MergeLoop(sortedLevels, lo, mid, mergedLevels, threshold)
         IN Strict(left, MergeLoop(sortedLevels, mid + 1, hi, left, threshold))

\* Array.prototype.filter on the level type
FilterType(levels, type) ==
    LET keep == {m \in 1..Len(levels) : levels[m].type = type}
        nth(k) == CHOOSE m \in keep : Cardinality({x \in keep : x < m}) = k - 1
    IN [k \in 1..Cardinality(keep) |-> levels[nth(k)]]

\* lines 338-426; threshold is a rational
findSupportResistance(series, lookback, threshold) ==
    IF Len(series) < 10
    THEN [supports |-> <<>>, resistances |-> <<>>,
          pivotPoint |-> IF Len(series) = 0 THEN RInt(0) ELSE RInt(series[Len(series)].close)]
    ELSE LET n == Min(lookback, Len(series))
             recentCandles == [k \in 1..n |-> series[Len(series) - n + k]]
             levels == LevelsLoop(recentCandles, 3, n - 2)
             sortedLevels == SortLevels(levels, 1)
             mergedLevels == MergeLoop(sortedLevels, 1, Len(sortedLevels), <<>>, threshold)
             last == recentCandles[n]
         IN [supports |-> SortLevels(FilterType(mergedLevels, "support"), -1),
             resistances |-> SortLevels(FilterType(mergedLevels, "resistance"), 1),
             pivotPoint |-> calculatePivotPoints(last.high, last.low, last.close).pivot]

\* variant: the first level of the list, on whichever side of currentPrice it lies
FindLevel_First(levels, currentPrice, side) ==
    IF levels = <<>> THEN <<>> ELSE <<levels[1]>>

\* Array.prototype.find for a price below (side = -1) or above (side = 1) currentPrice:
\* <<level>>, or <<>> when there is none
FindLevel(levels, currentPrice, side) ==
    LET hits == {m \in 1..Len(levels) :
                    IF side < 0 THEN RLt(levels[m].price, RInt(currentPrice))
                    ELSE RGt(levels[m].price, RInt(currentPrice))}
    IN IF hits = {} THEN <<>> ELSE <<levels[CHOOSE x \in hits : \A y \in hits : x <= y]>>

\* lines 431-453; distances are rationals, in percent
getNearestLevels(currentPrice, levels) ==
    LET nearestSupport == FindLevel(levels.supports, currentPrice, -1)
        nearestResistance == FindLevel(levels.resistances, currentPrice, 1)
    IN [nearestSupport |-> nearestSupport,
        nearestResistance |-> nearestResistance,
        distanceToSupport |->
            IF nearestSupport # <<>>
            THEN RMul(RDiv(RSub(RInt(currentPrice), nearestSupport[1].price), RInt(currentPrice)),
                      RInt(100))
            ELSE RInt(100),
        distanceToResistance |->
            IF nearestResistance # <<>>
            THEN RMul(RDiv(RSub(nearestResistance[1].price, RInt(currentPrice)), RInt(currentPrice)),
                      RInt(100))
            ELSE RInt(100)]

\* variant: the ratio is taken whenever the average exists; a division by 0 is NaN
analyzeVolume_Unguarded(volumes, period) ==
    LET sma == calculateSMA(volumes, period)
    IN [sma |-> sma,
        ratio |-> [k \in 1..Len(volumes) |->
                      IF IsNull(sma[k]) THEN Null
                      ELSE IF Val(sma[k]) = 0 THEN NaN
                      ELSE Num(FDiv(volumes[k], Val(sma[k])))]]

\* lines 460-479
analyzeVolume(volumes, period) ==
    LET sma == calculateSMA(volumes, period)
    IN [sma |-> sma,
        ratio |-> [k \in 1..Len(volumes) |->
                      IF IsNull(sma[k]) \/ Val(sma[k]) = 0 THEN Null
                      ELSE Num(FDiv(volumes[k], Val(sma[k])))]]

\* lines 484-508
getVolumeSignal(volumeRatio, priceChange) ==
    IF IsNull(volumeRatio) THEN [signal |-> "NEUTRAL", strength |-> 0]
    ELSE IF Val(volumeRatio) > 2 * Scale /\ priceChange > 0
    THEN [signal |-> "HIGH_VOLUME_BULLISH", strength |-> 3]
    ELSE IF Val(volumeRatio) > 2 * Scale /\ priceChange < 0
    THEN [signal |-> "HIGH_VOLUME_BEARISH", strength |-> -3]
    ELSE IF 2 * Val(volumeRatio) < Scale THEN [signal |-> "LOW_VOLUME", strength |-> 0]
    ELSE [signal |-> "NORMAL", strength |-> 0]

\* line 669: the module-level object read for support2 and resistance2
levels == [supports |-> <<>>, resistances |-> <<>>]

\* variant: the order of ema20 and ema50 is not looked at
determineTrend_PriceOnly(close, ema20, ema50) ==
    IF IsNum(ema20) /\ IsNum(ema50) /\ close > Val(ema20) THEN "BULLISH"
    ELSE IF IsNum(ema20) /\ IsNum(ema50) /\ close < Val(ema20) THEN "BEARISH"
    ELSE "SIDEWAYS"

\* lines 615-620
determineTrend(close, ema20, ema50) ==
    IF IsNum(ema20) /\ IsNum(ema50) /\ close > Val(ema20) /\ Val(ema20) > Val(ema50) THEN "BULLISH"
    ELSE IF IsNum(ema20) /\ IsNum(ema50) /\ close < Val(ema20) /\ Val(ema20) < Val(ema50)
    THEN "BEARISH"
    ELSE "SIDEWAYS"

\* variant: the sign of the score decides
determineSignal_Sign(signalScore) ==
    IF signalScore > 0 THEN "BUY" ELSE IF signalScore < 0 THEN "SELL" ELSE "NEUTRAL"

\* variant: the thresholds 15 and 5 in place of 22 and 10
determineSignal_Loose(signalScore) ==
    IF signalScore >= 15 THEN "STRONG_BUY"
    ELSE IF signalScore >= 5 THEN "BUY"
    ELSE IF signalScore <= -15 THEN "STRONG_SELL"
    ELSE IF signalScore <= -5 THEN "SELL"
    ELSE "NEUTRAL"

\* lines 622-628
determineSignal(signalScore) ==
    IF signalScore >= 22 THEN "STRONG_BUY"
    ELSE IF signalScore >= 10 THEN "BUY"
    ELSE IF signalScore <= -22 THEN "STRONG_SELL"
    ELSE IF signalScore <= -10 THEN "SELL"
    ELSE "NEUTRAL"

\* lines 554-612: the contributions added to signalScore.  x || y of the source takes
\* y when x is null or 0.
signalScoreOf(close, rsi, macd, macdSignal, macdHistogram, prevHistogram, bollingerUpper, bollingerMiddle, bollingerLower, sma20, sma50, sma200, ema200, volumeRatio, priceChange, nearest) ==
    LET \* line 558: getRSISignal(rsi || 50)
        rsiSignal == getRSISignal(IF IsNull(rsi) \/ Val(rsi) = 0 THEN 50 * Scale ELSE Val(rsi))
        macdSignalResult == getMACDSignal(macd, macdSignal, macdHistogram, prevHistogram)
        bollingerSignal == getBollingerSignal(close, bollingerUpper, bollingerMiddle, bollingerLower)
        volumeSignal == getVolumeSignal(volumeRatio, priceChange)
        score1 == rsiSignal.strength * 4
        score2 == score1 + macdSignalResult.strength * 3
        score3 == score2 + bollingerSignal.strength * 2
        score4 == score3 + (IF IsNum(sma20) /\ IsNum(sma50)
                            THEN (IF Val(sma20) > Val(sma50) THEN 2 ELSE -2) ELSE 0)
        score5 == score4 + (IF IsNum(sma50) /\ IsNum(sma200)
                            THEN (IF Val(sma50) > Val(sma200) THEN 2 ELSE -2) ELSE 0)
        score6 == score5 + (IF IsNum(sma20)
                            THEN (IF close > Val(sma20) THEN 1 ELSE -1) ELSE 0)
        score7 == score6 + volumeSignal.strength * 3
        score8 == score7 + (IF IsNum(ema200)
                            THEN (IF close < Val(ema200) THEN -6 ELSE 4) ELSE 0)
        strengthBonus == IF nearest.nearestSupport # <<>> /\ nearest.nearestSupport[1].strength # 0
                         THEN nearest.nearestSupport[1].strength ELSE 1
        score9 == score8 + (IF RLt(nearest.distanceToSupport, RNorm(3, 2))
                            THEN 2 + strengthBonus ELSE 0)
    IN score9 + (IF RLt(nearest.distanceToResistance, RNorm(3, 2)) THEN -5 ELSE 0)

\* lines 614-665: trend, signal and the returned record
TechnicalIndicators(close, rsi, macd, macdSignal, macdHistogram, bollingerUpper, bollingerMiddle, bollingerLower, bollingerWidth, sma20, sma50, sma200, ema20, ema50, ema200, volumeSma20, volumeRatio, nearest, pivotPoint, signalScore) ==
    [rsi |-> rsi,
     macd |-> [macd |-> macd, signal |-> macdSignal, histogram |-> macdHistogram],
     bollingerBands |-> [upper |-> bollingerUpper, middle |-> bollingerMiddle,
                         lower |-> bollingerLower, width |-> bollingerWidth],
     movingAverages |-> [sma20 |-> sma20, sma50 |-> sma50, sma200 |-> sma200,
                         ema20 |-> ema20, ema50 |-> ema50, ema200 |-> ema200],
     volume |-> [sma20 |-> volumeSma20, ratio |-> volumeRatio],
     supportResistance |->
         [support1 |-> IF nearest.nearestSupport # <<>>
                          /\ RSign(nearest.nearestSupport[1].price) # 0
                       THEN Num(nearest.nearestSupport[1].price) ELSE Null,
          support2 |-> IF Len(levels.supports) >= 2 /\ RSign(levels.supports[2].price) # 0
                       THEN Num(levels.supports[2].price) ELSE Null,
          resistance1 |-> IF nearest.nearestResistance # <<>>
                             /\ RSign(nearest.nearestResistance[1].price) # 0
                          THEN Num(nearest.nearestResistance[1].price) ELSE Null,
          resistance2 |-> IF Len(levels.resistances) >= 2
                             /\ RSign(levels.resistances[2].price) # 0
                          THEN Num(levels.resistances[2].price) ELSE Null,
          pivot |-> pivotPoint],
     trend |-> determineTrend(close, ema20, ema50),
     signal |-> determineSignal(signalScore),
     signalScore |-> signalScore]

\* lines 554-665, on the last values of the indicators
analyseLast(close, rsi, macd, macdSignal, macdHistogram, prevHistogram, bollingerUpper, bollingerMiddle, bollingerLower, bollingerWidth, sma20, sma50, sma200, ema20, ema50, ema200, volumeSma20, volumeRatio, priceChange, nearest, pivotPoint) ==
    TechnicalIndicators(close, rsi, macd, macdSignal, macdHistogram,
                        bollingerUpper, bollingerMiddle, bollingerLower, bollingerWidth,
                        sma20, sma50, sma200, ema20, ema50, ema200,
                        volumeSma20, volumeRatio, nearest, pivotPoint,
                        signalScoreOf(close, rsi, macd, macdSignal, macdHistogram, prevHistogram,
                                      bollingerUpper, bollingerMiddle, bollingerLower,
                                      sma20, sma50, sma200, ema200,
                                      volumeRatio, priceChange, nearest))

\* lines 525-552: the last value of every indicator array
lastValues(series, n, closes, rsiArray, macdResult, bollinger, sma20Array, sma50Array, sma200Array, ema20Array, ema50Array, ema200Array, volumeAnalysis, supportResistance) ==
    analyseLast(series[n].close * Scale,
                AtLen(rsiArray, n, n - 1),
                AtLen(macdResult.macd, n, n - 1),
                AtLen(macdResult.signal, n, n - 1),
                AtLen(macdResult.histogram, n, n - 1),
                AtLen(macdResult.histogram, n, n - 2),
                AtLen(bollinger.upper, n, n - 1),
                AtLen(bollinger.middle, n, n - 1),
                AtLen(bollinger.lower, n, n - 1),
                AtLen(bollinger.width, n, n - 1),
                AtLen(sma20Array, n, n - 1),
                AtLen(sma50Array, n, n - 1),
                AtLen(sma200Array, n, n - 1),
                AtLen(ema20Array, n, n - 1),
                AtLen(ema50Array, n, n - 1),
                AtLen(ema200Array, n, n - 1),
                AtLen(volumeAnalysis.sma, n, n - 1),
                AtLen(volumeAnalysis.ratio, n, n - 1),
                \* closes[n - 2] is undefined for a single candle; the difference is
                \* then NaN, which compares like 0 in getVolumeSignal
                IF n >= 2 THEN closes[n] - closes[n - 1] ELSE 0,
                getNearestLevels(series[n].close, supportResistance),
                supportResistance.pivotPoint)

\* lines 515-666
performTechnicalAnalysis(series) ==
    lastValues(series, Len(series), Closes(series),
               calculateRSI(Closes(series), 14),
               calculateMACD(Closes(series)),
               calculateBollingerBands(Closes(series), 20, 2),
               calculateSMA(Closes(series), 20),
               calculateSMA(Closes(series), 50),
               calculateSMA(Closes(series), 200),
               calculateEMA(Closes(series), 20),
               calculateEMA(Closes(series), 50),
               calculateEMA(Closes(series), 200),
               analyzeVolume(Volumes(series), 20),
               findSupportResistance(series, 100, RNorm(2, 100)))


-----------------------------------------------------------------------------
(* Backtest route: POST /api/backtest and its runBacktest *)

Warmup == 50

\* the BacktestConfig built by POST from the request body
Configs ==
    {[initialCapital |-> 10000, rsiOversold |-> 30, rsiOverbought |-> 70,
      stopLossPercent |-> c[1], takeProfitPercent |-> 20, positionSizePercent |-> c[2]]
        : c \in {<<5, 10>>, <<-5, 10>>, <<5, 1000>>}}

\* variant: the RSI handed to step k is the one of candle k + 1
route_Indicators_Ahead(series) ==
    LET closes == Closes(series)
        rsi == calculateRSI(closes, 14)
    IN [rsiValues |-> [k \in 1..Len(closes) |-> rsi[Min(k + 1, Len(closes))]],
        macdResult |-> calculateMACD(closes),
        bollinger |-> calculateBollingerBands(closes, 20, 2)]

\* POST lines 59-63: the indicators of the whole series, computed before the simulation
route_Indicators(series) ==
    LET closes == Closes(series)
    IN [rsiValues  |-> calculateRSI(closes, 14),
        macdResult |-> calculateMACD(closes),
        bollinger  |-> calculateBollingerBands(closes, 20, 2)]

route_InitState(cfg) ==
    [capital |-> RInt(cfg.initialCapital), position |-> RInt(0), entryPrice |-> RInt(0),
     stopLoss |-> RInt(0), takeProfit |-> RInt(0), trades |-> <<>>, equityCurve |-> <<>>,
     winningTrades |-> 0, losingTrades |-> 0, totalPnL |-> RInt(0),
     maxDrawdown |-> RInt(0), peakEquity |-> RInt(cfg.initialCapital)]

\* variant: pnl per unit, not multiplied by the quantity
route_SellTrade_PerUnit(s, idx, price, reason) ==
    [type |-> "SELL", timestamp |-> idx, price |-> price, quantity |-> s.position,
     total |-> RMul(price, s.position), reason |-> reason,
     pnl |-> Num(RSub(price, s.entryPrice))]

\* a SELL of the whole position at the given price
route_SellTrade(s, idx, price, reason) ==
    LET pnl == RMul(RSub(price, s.entryPrice), s.position)
    IN [type |-> "SELL", timestamp |-> idx, price |-> price, quantity |-> s.position,
        total |-> RMul(price, s.position), reason |-> reason, pnl |-> Num(pnl)]

\* variant: a stop-loss or take-profit exit that is counted nowhere
route_StopExit_Uncounted(s, idx, price, reason) ==
    LET trade == route_SellTrade(s, idx, price, reason)
    IN [s EXCEPT !.capital = RAdd(s.capital, RMul(price, s.position)),
                 !.trades = Append(s.trades, trade),
                 !.totalPnL = RAdd(s.totalPnL, Val(trade.pnl)),
                 !.position = RInt(0),
                 !.entryPrice = RInt(0)]

\* variant: a take-profit exit is counted whatever the sign of its pnl, as is a
\* stop-loss exit, and both as losers
route_StopExit_AllLosers(s, idx, price, reason) ==
    LET trade == route_SellTrade(s, idx, price, reason)
    IN [s EXCEPT !.capital = RAdd(s.capital, RMul(price, s.position)),
                 !.trades = Append(s.trades, trade),
                 !.losingTrades = s.losingTrades + 1,
                 !.totalPnL = RAdd(s.totalPnL, Val(trade.pnl)),
                 !.position = RInt(0),
                 !.entryPrice = RInt(0)]

\* lines 140-157 and 163-180: exit at the stop-loss or take-profit price
route_StopExit(s, idx, price, reason) ==
    LET trade == route_SellTrade(s, idx, price, reason)
        pnl == Val(trade.pnl)
    IN [s EXCEPT !.capital = RAdd(s.capital, RMul(price, s.position)),
                 !.trades = Append(s.trades, trade),
                 !.losingTrades = IF reason = <<"Stop Loss">> /\ RSign(pnl) < 0
                                  THEN s.losingTrades + 1 ELSE s.losingTrades,
                 !.winningTrades = IF reason = <<"Take Profit">> /\ RSign(pnl) > 0
                                   THEN s.winningTrades + 1 ELSE s.winningTrades,
                 !.totalPnL = RAdd(s.totalPnL, pnl),
                 !.position = RInt(0),
                 !.entryPrice = RInt(0)]

\* variant: the exit is logged but the position is kept
route_CloseExit_KeepsPosition(s, idx, price, reason) ==
    LET trade == route_SellTrade(s, idx, price, reason)
        pnl == Val(trade.pnl)
    IN [s EXCEPT !.capital = RAdd(s.capital, RMul(price, s.position)),
                 !.trades = Append(s.trades, trade),
                 !.winningTrades = IF RSign(pnl) > 0 THEN s.winningTrades + 1 ELSE s.winningTrades,
                 !.losingTrades = IF RSign(pnl) > 0 THEN s.losingTrades ELSE s.losingTrades + 1,
                 !.totalPnL = RAdd(s.totalPnL, pnl)]

\* lines 251-269 and 277-293: exit at a close price, counted as winner or loser
route_CloseExit(s, idx, price, reason) ==
    LET trade == route_SellTrade(s, idx, price, reason)
        pnl == Val(trade.pnl)
    IN [s EXCEPT !.capital = RAdd(s.capital, RMul(price, s.position)),
                 !.trades = Append(s.trades, trade),
                 !.winningTrades = IF RSign(pnl) > 0 THEN s.winningTrades + 1 ELSE s.winningTrades,
                 !.losingTrades = IF RSign(pnl) > 0 THEN s.losingTrades ELSE s.losingTrades + 1,
                 !.totalPnL = RAdd(s.totalPnL, pnl),
                 !.position = RInt(0),
                 !.entryPrice = RInt(0)]

\* variant: maxDrawdown is the drawdown of the current candle, not the largest so far
route_TrackEquity_LastDrawdown(s, idx, candle) ==
    LET currentEquity == RAdd(s.capital, RMul(s.position, RInt(candle.close)))
        peakEquity == IF RGt(currentEquity, s.peakEquity) THEN currentEquity ELSE s.peakEquity
    IN [s EXCEPT !.equityCurve = Append(s.equityCurve, [timestamp |-> idx, value |-> currentEquity]),
                 !.peakEquity = peakEquity,
                 !.maxDrawdown = RDiv(RSub(peakEquity, currentEquity), peakEquity)]

\* lines 123-134: equity curve and drawdown
route_TrackEquity(s, idx, candle) ==
    LET currentEquity == RAdd(s.capital, RMul(s.position, RInt(candle.close)))
        peakEquity == IF RGt(currentEquity, s.peakEquity) THEN currentEquity ELSE s.peakEquity
        drawdown == IF RSign(peakEquity) = 0 THEN NaN
                    ELSE Num(RDiv(RSub(peakEquity, currentEquity), peakEquity))
    IN [s EXCEPT !.equityCurve = Append(s.equityCurve, [timestamp |-> idx, value |-> currentEquity]),
                 !.peakEquity = peakEquity,
                 !.maxDrawdown = IF IsNum(drawdown) /\ RGt(Val(drawdown), s.maxDrawdown)
                                 THEN Val(drawdown) ELSE s.maxDrawdown]

\* lines 186-229: the buy block
route_Buy(s, idx, candle, rsi, macdHistogram, prevHistogram, lowerBand, cfg) ==
    LET rsiOversold == IsNum(rsi) /\ Val(rsi) < cfg.rsiOversold * Scale
        macdCross == /\ IsNum(macdHistogram) /\ IsNum(prevHistogram)
                     /\ Val(macdHistogram) > 0 /\ Val(prevHistogram) <= 0
        belowBand == IsNum(lowerBand) /\ candle.close * Scale < Val(lowerBand)
        buySignals == (IF rsiOversold THEN <<"RSI oversold">> ELSE <<>>)
                      \o (IF macdCross THEN <<"MACD bullish crossover">> ELSE <<>>)
                      \o (IF belowBand THEN <<"Below Bollinger Band">> ELSE <<>>)
        positionSize == RDiv(RMul(s.capital, RInt(cfg.positionSizePercent)), RInt(100))
        quantity == RDiv(positionSize, RInt(candle.close))
    IN IF RSign(s.position) = 0 /\ RSign(s.capital) > 0 /\ Len(buySignals) >= 1
       THEN [s EXCEPT !.position = quantity,
                      !.entryPrice = RInt(candle.close),
                      !.stopLoss = RMul(RInt(candle.close), RSub(RInt(1), RNorm(cfg.stopLossPercent, 100))),
                      !.takeProfit = RMul(RInt(candle.close), RAdd(RInt(1), RNorm(cfg.takeProfitPercent, 100))),
                      !.capital = RSub(s.capital, positionSize),
                      !.trades = Append(s.trades,
                                    [type |-> "BUY", timestamp |-> idx, price |-> RInt(candle.close),
                                     quantity |-> quantity, total |-> positionSize,
                                     reason |-> buySignals, pnl |-> Null])]
       ELSE s

\* lines 232-271: the sell block
route_Sell(s, idx, candle, rsi, macdHistogram, prevHistogram, cfg) ==
    LET rsiOverbought == IsNum(rsi) /\ Val(rsi) > cfg.rsiOverbought * Scale
        macdCross == /\ IsNum(macdHistogram) /\ IsNum(prevHistogram)
                     /\ Val(macdHistogram) < 0 /\ Val(prevHistogram) >= 0
        sellSignals == (IF rsiOverbought THEN <<"RSI overbought">> ELSE <<>>)
                       \o (IF macdCross THEN <<"MACD bearish crossover">> ELSE <<>>)
    IN IF RSign(s.position) > 0 /\ Len(sellSignals) >= 1
       THEN route_CloseExit(s, idx, RInt(candle.close), sellSignals)
       ELSE s

\* variant: the take-profit is tested before the stop-loss
route_LoopBody_ProfitFirst(s, idx, series, indic, cfg) ==
    LET candle == series[idx + 1]
        rsi == AtLen(indic.rsiValues, Len(series), idx)
        macdHistogram == AtLen(indic.macdResult.histogram, Len(series), idx)
        prevHistogram == AtLen(indic.macdResult.histogram, Len(series), idx - 1)
        lowerBand == AtLen(indic.bollinger.lower, Len(series), idx)
        s1 == route_TrackEquity(s, idx, candle)
    IN IF RSign(s1.position) > 0 /\ RGe(RInt(candle.high), s1.takeProfit)
       THEN route_StopExit(s1, idx, s1.takeProfit, <<"Take Profit">>)
       ELSE IF RSign(s1.position) > 0 /\ RLe(RInt(candle.low), s1.stopLoss)
       THEN route_StopExit(s1, idx, s1.stopLoss, <<"Stop Loss">>)
       ELSE route_Sell(route_Buy(s1, idx, candle, rsi, macdHistogram, prevHistogram, lowerBand, cfg),
                       idx, candle, rsi, macdHistogram, prevHistogram, cfg)

\* lines 116-272: one iteration of the simulation loop, at index idx
route_LoopBody(s, idx, series, indic, cfg) ==
    LET candle == series[idx + 1]
        rsi == AtLen(indic.rsiValues, Len(series), idx)
        macdHistogram == AtLen(indic.macdResult.histogram, Len(series), idx)
        prevHistogram == AtLen(indic.macdResult.histogram, Len(series), idx - 1)
        lowerBand == AtLen(indic.bollinger.lower, Len(series), idx)
        s1 == route_TrackEquity(s, idx, candle)
    IN IF RSign(s1.position) > 0 /\ RLe(RInt(candle.low), s1.stopLoss)
       THEN route_StopExit(s1, idx, s1.stopLoss, <<"Stop Loss">>)
       ELSE IF RSign(s1.position) > 0 /\ RGe(RInt(candle.high), s1.takeProfit)
       THEN route_StopExit(s1, idx, s1.takeProfit, <<"Take Profit">>)
       ELSE route_Sell(route_Buy(s1, idx, candle, rsi, macdHistogram, prevHistogram, lowerBand, cfg),
                       idx, candle, rsi, macdHistogram, prevHistogram, cfg)

\* variant: the remaining position is added to the capital without a trade
route_ForceClose_Unlogged(s, series) ==
    IF RSign(s.position) > 0
    THEN [s EXCEPT !.capital = RAdd(s.capital, RMul(RInt(series[Len(series)].close), s.position))]
    ELSE s

\* lines 275-294: close any remaining position at the last close
route_ForceClose(s, series) ==
    IF RSign(s.position) > 0
    THEN route_CloseExit(s, Len(series) - 1, RInt(series[Len(series)].close), <<"End of backtest">>)
    ELSE s

\* lines 296-323: the summary returned to the caller
route_Result(s, cfg) ==
    LET totalReturn == RSub(s.capital, RInt(cfg.initialCapital))
        totalTrades == s.winningTrades + s.losingTrades
    IN [totalReturn |-> totalReturn,
        totalReturnPercent |-> RMul(RDiv(totalReturn, RInt(cfg.initialCapital)), RInt(100)),
        maxDrawdown |-> RMul(s.maxDrawdown, RInt(100)),
        winRate |-> IF totalTrades > 0
                    THEN RMul(RNorm(s.winningTrades, totalTrades), RInt(100)) ELSE RInt(0),
        totalTrades |-> totalTrades,
        winningTrades |-> s.winningTrades,
        losingTrades |-> s.losingTrades,
        trades |-> s.trades,
        equityCurve |-> s.equityCurve]

-----------------------------------------------------------------------------
(* store.ts: single-value indicators and its runBacktest *)

\* arithmetic on JavaScript numbers: NaN propagates
JSub(a, b) == IF IsNum(a) /\ IsNum(b) THEN Num(Val(a) - Val(b)) ELSE NaN

JAdd(a, b) == IF IsNum(a) /\ IsNum(b) THEN Num(Val(a) + Val(b)) ELSE NaN

\* a * k / d for integer constants k and d
JScale(a, k, d) == IF IsNum(a) THEN Num(Div(Val(a) * k, d)) ELSE NaN

\* array[idx] as an arithmetic operand: an index past the end reads undefined, which is NaN
JGet(array, idx) == IF idx >= 0 /\ idx < Len(array) THEN Num(array[idx + 1]) ELSE NaN

RECURSIVE JSum(_)
JSum(s) == IF s = <<>> THEN Num(0) ELSE JAdd(s[1], JSum(Tail(s)))

RECURSIVE store_EMALoop(_, _, _, _, _)
\* lines 474-476: the loop over the 1-based positions lo..hi
store_EMALoop(data, period, lo, hi, ema) ==
    IF lo > hi THEN ema
    ELSE IF lo = hi THEN Div((data[lo] - ema) * 2, period + 1) + ema
    ELSE LET mid == (lo + hi) \div 2
             left == store_EMALoop(data, period, lo, mid, ema)
         IN Strict(left, store_EMALoop(data, period, mid + 1, hi, left))

store_calculateEMA(data, period) ==
    IF Len(data) < period THEN Null
    ELSE Num(store_EMALoop(data, period, period + 1, Len(data),
                           Div(SumRange(data, 1, period), period)))

\* lines 519-525: one step of Wilder smoothing, avg = <<avgGain, avgLoss>>
store_RSIStep(changes, period, k, avg) ==
    IF changes[k] > 0
    THEN <<Div(avg[1] * (period - 1) + changes[k], period), Div(avg[2] * (period - 1), period)>>
    ELSE <<Div(avg[1] * (period - 1), period), Div(avg[2] * (period - 1) + Abs(changes[k]), period)>>

RECURSIVE store_RSILoop(_, _, _, _, _)
\* lines 518-526: the loop over changes[lo..hi], 1-based
store_RSILoop(changes, period, lo, hi, avg) ==
    IF lo > hi THEN avg
    ELSE IF lo = hi THEN store_RSIStep(changes, period, lo, avg)
    ELSE LET mid == (lo + hi) \div 2
             left == store_RSILoop(changes, period, lo, mid, avg)
         IN Strict(left, store_RSILoop(changes, period, mid + 1, hi, left))

store_calculateRSI(closes, period) ==
    IF Len(closes) < period + 1 THEN [value |-> 50 * Scale, signal |-> "NEUTRAL"]
    ELSE LET changes == [k \in 1..(Len(closes) - 1) |-> closes[k + 1] - closes[k]]
             gains == SumRange([k \in 1..period |-> IF changes[k] > 0 THEN changes[k] ELSE 0], 1, period)
             losses == SumRange([k \in 1..period |-> IF changes[k] > 0 THEN 0 ELSE Abs(changes[k])], 1, period)
             avg == store_RSILoop(changes, period, period + 1, Len(changes),
                                  <<Div(gains, period), Div(losses, period)>>)
             avgGain == avg[1]
             avgLoss == avg[2]
             rsi == RSIValue(avgGain, avgLoss)
         IN IF avgLoss = 0 THEN [value |-> 100 * Scale, signal |-> "SELL"]
            ELSE [value |-> rsi,
                  signal |-> IF rsi < 30 * Scale THEN "BUY"
                             ELSE IF rsi > 70 * Scale THEN "SELL"
                             ELSE IF rsi < 40 * Scale THEN "BUY"
                             ELSE IF rsi > 60 * Scale THEN "SELL"
                             ELSE "NEUTRAL"]

\* lines 584-590: one iteration of the loop that fills fastEMA and slowEMA, 0-based index idx
store_MACDStep(closes, fastPeriod, slowPeriod, idx, s) ==
    LET f == Div((closes[idx + 1] - s.fastSMA) * 2, fastPeriod + 1) + s.fastSMA
        sl == Div((closes[idx + 1] - s.slowSMA) * 2, slowPeriod + 1) + s.slowSMA
    IN IF idx >= slowPeriod - 1
       THEN [fastSMA |-> f, slowSMA |-> sl,
             fastEMA |-> Append(s.fastEMA, f), slowEMA |-> Append(s.slowEMA, sl)]
       ELSE [fastSMA |-> f, slowSMA |-> s.slowSMA,
             fastEMA |-> Append(s.fastEMA, f), slowEMA |-> s.slowEMA]

RECURSIVE store_MACDEMAs(_, _, _, _, _, _)
\* lines 583-591: the loop over the 0-based indices lo..hi
store_MACDEMAs(closes, fastPeriod, slowPeriod, lo, hi, s) ==
    IF lo > hi THEN s
    ELSE IF lo = hi THEN store_MACDStep(closes, fastPeriod, slowPeriod, lo, s)
    ELSE LET mid == (lo + hi) \div 2
             left == store_MACDEMAs(closes, fastPeriod, slowPeriod, lo, mid, s)
         IN Strict(left, store_MACDEMAs(closes, fastPeriod, slowPeriod, mid + 1, hi, left))

RECURSIVE store_SignalLoop(_, _, _, _, _)
\* lines 605-607: EMA of the MACD line over the 0-based indices lo..hi
store_SignalLoop(macdLine, signalPeriod, lo, hi, signalValue) ==
    IF lo > hi THEN signalValue
    ELSE IF lo = hi
         THEN JAdd(JScale(JSub(macdLine[lo + 1], signalValue), 2, signalPeriod + 1), signalValue)
    ELSE LET mid == (lo + hi) \div 2
             left == store_SignalLoop(macdLine, signalPeriod, lo, mid, signalValue)
         IN Strict(left, store_SignalLoop(macdLine, signalPeriod, mid + 1, hi, left))

store_calculateMACD(closes, fastPeriod, slowPeriod, signalPeriod) ==
    IF Len(closes) < slowPeriod + signalPeriod
    THEN [macd |-> Null, signal |-> Null, histogram |-> Null]
    ELSE LET fastSMA == Div(SumRange(closes, 1, fastPeriod), fastPeriod)
             slowSMA == Div(SumRange(closes, 1, slowPeriod), slowPeriod)
             emas == store_MACDEMAs(closes, fastPeriod, slowPeriod, fastPeriod, Len(closes) - 1,
                                    [fastSMA |-> fastSMA, slowSMA |-> slowSMA,
                                     fastEMA |-> <<fastSMA>>, slowEMA |-> <<slowSMA>>])
             startIndex == slowPeriod - fastPeriod
             macdLine == [k \in 1..Len(emas.slowEMA) |->
                            JSub(JGet(emas.fastEMA, (k - 1) + startIndex), Num(emas.slowEMA[k]))]
             seed == JScale(JSum(SubSeq(macdLine, 1, Min(signalPeriod, Len(macdLine)))), 1, signalPeriod)
             signalValue == store_SignalLoop(macdLine, signalPeriod, signalPeriod,
                                             Len(macdLine) - 1, seed)
             macd == macdLine[Len(macdLine)]
         IN [macd |-> macd, signal |-> signalValue, histogram |-> JSub(macd, signalValue)]

store_InitState(cfg) ==
    [trades |-> <<>>, capital |-> RInt(cfg.initialCapital), position |-> RInt(0),
     maxCapital |-> RInt(cfg.initialCapital), maxDrawdown |-> RInt(0), returns |-> <<>>]

\* the last BUY of a trade log, <<>> when there is none
RECURSIVE LastBuy(_)
LastBuy(trades) ==
    IF trades = <<>> THEN <<>>
    ELSE IF trades[Len(trades)].type = "BUY" THEN <<trades[Len(trades)]>>
    ELSE LastBuy(SubSeq(trades, 1, Len(trades) - 1))

\* lines 1097-1105: drawdown tracking
store_TrackDrawdown(s, currentPrice) ==
    LET currentValue == IF RSign(s.position) > 0 THEN RMul(s.position, RInt(currentPrice)) ELSE s.capital
        maxCapital == IF RGt(currentValue, s.maxCapital) THEN currentValue ELSE s.maxCapital
        drawdown == IF RSign(maxCapital) = 0 THEN NaN
                    ELSE Num(RDiv(RSub(maxCapital, currentValue), maxCapital))
    IN [s EXCEPT !.maxCapital = maxCapital,
                 !.maxDrawdown = IF IsNum(drawdown) /\ RGt(Val(drawdown), s.maxDrawdown)
                                 THEN Val(drawdown) ELSE s.maxDrawdown]

\* lines 1056-1106: one iteration of the simulation loop, at index idx
store_LoopBody(s, idx, data, cfg) ==
    LET historicalData == SubSeq(data, 1, idx)
        closes == Closes(historicalData)
        currentPrice == historicalData[Len(historicalData)].close
        rsiResult == store_calculateRSI(closes, 14)
        macdResult == store_calculateMACD(closes, 12, 26, 9)
        histogram == macdResult.histogram
        truthy == IsNum(histogram) /\ Val(histogram) # 0
        buy == /\ RSign(s.position) = 0
               /\ rsiResult.value < cfg.rsiOversold * Scale
               /\ truthy /\ Val(histogram) > 0
        sell == /\ RSign(s.position) > 0
                /\ \/ rsiResult.value > cfg.rsiOverbought * Scale
                   \/ truthy /\ Val(histogram) < 0
        quantity == RDiv(s.capital, RInt(currentPrice))
        lastBuy == LastBuy(s.trades)
        s1 == IF buy
              THEN [s EXCEPT !.position = quantity,
                             !.capital = RInt(0),
                             !.trades = Append(s.trades,
                                 [type |-> "BUY", price |-> currentPrice, timestamp |-> idx,
                                  quantity |-> quantity, reason |-> <<"RSI", "MACD crossover">>])]
              ELSE IF sell
              THEN [s EXCEPT !.capital = RMul(s.position, RInt(currentPrice)),
                             !.trades = Append(s.trades,
                                 [type |-> "SELL", price |-> currentPrice, timestamp |-> idx,
                                  quantity |-> s.position,
                                  reason |-> IF rsiResult.value > cfg.rsiOverbought * Scale
                                             THEN <<"RSI overbought">>
                                             ELSE <<"MACD bearish crossover">>]),
                             !.position = RInt(0),
                             !.returns = IF lastBuy # <<>>
                                         THEN Append(s.returns,
                                                RNorm(currentPrice - lastBuy[1].price, lastBuy[1].price))
                                         ELSE s.returns]
              ELSE s
    IN store_TrackDrawdown(s1, currentPrice)

RECURSIVE SelectType(_, _)
\* trades.filter(t => t.type === type)
SelectType(trades, type) ==
    IF trades = <<>> THEN <<>>
    ELSE (IF Head(trades).type = type THEN <<Head(trades)>> ELSE <<>>) \o SelectType(Tail(trades), type)

\* lines 1108-1152: metrics and the returned summary
store_Result(s, data, cfg) ==
    LET finalValue == IF RSign(s.position) > 0
                      THEN RMul(s.position, RInt(data[Len(data)].close)) ELSE s.capital
        totalReturn == RSub(finalValue, RInt(cfg.initialCapital))
        buyTrades == SelectType(s.trades, "BUY")
        sellTrades == SelectType(s.trades, "SELL")
        pairs == Min(Len(buyTrades), Len(sellTrades))
        winningTrades == Cardinality({k \in 1..pairs : sellTrades[k].price > buyTrades[k].price})
        losingTrades == pairs - winningTrades
    IN [trades |-> s.trades,
        totalReturn |-> totalReturn,
        totalReturnPercent |-> RMul(RDiv(totalReturn, RInt(cfg.initialCapital)), RInt(100)),
        winRate |-> IF winningTrades + losingTrades > 0
                    THEN RMul(RNorm(winningTrades, winningTrades + losingTrades), RInt(100))
                    ELSE RInt(0),
        maxDrawdown |-> RMul(s.maxDrawdown, RInt(100)),
        totalTrades |-> Len(s.trades),
        winningTrades |-> winningTrades,
        losingTrades |-> losingTrades]

\* lines 1035-1047: the result for a series shorter than the warm-up
store_EmptyResult ==
    [trades |-> <<>>, totalReturn |-> RInt(0), totalReturnPercent |-> RInt(0), winRate |-> RInt(0),
     maxDrawdown |-> RInt(0), totalTrades |-> 0, winningTrades |-> 0, losingTrades |-> 0]

-----------------------------------------------------------------------------
(* The backtest runs as a state machine: one action per handler step *)

Inputs ==
    {Extend(History(shape, Warmup), tail) : shape \in Shapes, tail \in Tails}
        \cup {History(shape, Warmup - 1) : shape \in Shapes}

Init ==
    /\ candles \in Inputs
    /\ config \in Configs
    /\ impl \in {"route", "store"}
    /\ pc = "start"
    /\ i = 0
    /\ ind = Null
    /\ rt = route_InitState(config)
    /\ st = store_InitState(config)
    /\ result = Null
    /\ analysis = Null

\* POST lines 42-47: too little history is answered with an error
RouteReject ==
    /\ impl = "route" /\ pc = "start"
    /\ Len(candles) < Warmup
    /\ pc' = "rejected"
    /\ UNCHANGED <<candles, config, impl, i, ind, rt, st, result, analysis>>

\* POST lines 59-72 and runBacktest lines 100-113
RoutePost ==
    /\ impl = "route" /\ pc = "start"
    /\ Len(candles) >= Warmup
    /\ ind' = route_Indicators(candles)
    /\ rt' = route_InitState(config)
    /\ i' = Warmup
    /\ pc' = "loop"
    /\ UNCHANGED <<candles, config, impl, st, result, analysis>>

RouteStep ==
    /\ impl = "route" /\ pc = "loop"
    /\ i < Len(candles)
    /\ rt' = route_LoopBody(rt, i, candles, ind, config)
    /\ i' = i + 1
    /\ UNCHANGED <<candles, config, impl, pc, ind, st, result, analysis>>

RouteFinish ==
    /\ impl = "route" /\ pc = "loop"
    /\ i >= Len(candles)
    /\ rt' = route_ForceClose(rt, candles)
    /\ result' = route_Result(rt', config)
    /\ pc' = "done"
    /\ UNCHANGED <<candles, config, impl, i, ind, st, analysis>>

\* store.ts lines 1035-1047
StoreShort ==
    /\ impl = "store" /\ pc = "start"
    /\ Len(candles) < Warmup
    /\ result' = store_EmptyResult
    /\ pc' = "done"
    /\ UNCHANGED <<candles, config, impl, i, ind, rt, st, analysis>>

\* store.ts lines 1049-1054
StoreStart ==
    /\ impl = "store" /\ pc = "start"
    /\ Len(candles) >= Warmup
    /\ st' = store_InitState(config)
    /\ i' = Warmup
    /\ pc' = "loop"
    /\ UNCHANGED <<candles, config, impl, ind, rt, result, analysis>>

StoreStep ==
    /\ impl = "store" /\ pc = "loop"
    /\ i < Len(candles)
    /\ st' = store_LoopBody(st, i, candles, config)
    /\ i' = i + 1
    /\ UNCHANGED <<candles, config, impl, pc, ind, rt, result, analysis>>

StoreFinish ==
    /\ impl = "store" /\ pc = "loop"
    /\ i >= Len(candles)
    /\ result' = store_Result(st, candles, config)
    /\ pc' = "done"
    /\ UNCHANGED <<candles, config, impl, i, ind, rt, st, analysis>>

Next ==
    \/ RouteReject
    \/ RoutePost
    \/ RouteStep
    \/ RouteFinish
    \/ StoreShort
    \/ StoreStart
    \/ StoreStep
    \/ StoreFinish

Spec == Init /\ [][Next]_vars

-----------------------------------------------------------------------------
(* The analysis of one candle series *)

InitAnalysis ==
    /\ candles \in AnalysisInputs
    /\ impl = "analysis"
    /\ pc = "start"
    /\ i = 0
    /\ config = Null
    /\ ind = Null
    /\ rt = Null
    /\ st = Null
    /\ result = Null
    /\ analysis = Null

\* a caller hands the series to performTechnicalAnalysis
Analyse ==
    /\ impl = "analysis"
    /\ pc = "start"
    /\ analysis' = performTechnicalAnalysis(candles)
    /\ pc' = "done"
    /\ UNCHANGED <<candles, config, impl, i, ind, rt, st, result>>

NextAnalysis == Analyse

SpecAnalysis == InitAnalysis /\ [][NextAnalysis]_vars

-----------------------------------------------------------------------------
(* The classification of one RSI value *)

\* RSI values are drawn in steps of 1 / RSIResolution
RSIResolution == 4

RSIInputs == {k * (Scale \div RSIResolution) : k \in 0..(100 * RSIResolution)}

InitSignal ==
    /\ i \in RSIInputs
    /\ impl = "signal"
    /\ pc = "start"
    /\ candles = Null
    /\ config = Null
    /\ ind = Null
    /\ rt = Null
    /\ st = Null
    /\ result = Null
    /\ analysis = Null

\* a caller hands the RSI value i to getRSISignal
Classify ==
    /\ impl = "signal"
    /\ pc = "start"
    /\ analysis' = getRSISignal(i)
    /\ pc' = "done"
    /\ UNCHANGED <<candles, config, impl, i, ind, rt, st, result>>

NextSignal == Classify

SpecSignal == InitSignal /\ [][NextSignal]_vars

-----------------------------------------------------------------------------
(* The indicators of one close series *)

IndicatorLengths == {1, 3, 9, 15, 26, 33, 40}

Periods == {1, 2, 14}

\* close series from one candle up to a few candles past the 35 closes of a full MACD
IndicatorInputs ==
    {Extend(AnalysisHistory(shape, len), tail) :
        shape \in AnalysisShapes, len \in IndicatorLengths,
        tail \in UNION {[1..k -> Kinds] : k \in 0..MaxFeed}}

InitIndicators ==
    /\ candles \in IndicatorInputs
    /\ config \in [period : Periods]
    /\ impl = "indicators"
    /\ pc = "start"
    /\ i = 0
    /\ ind = Null
    /\ rt = Null
    /\ st = Null
    /\ result = Null
    /\ analysis = Null

\* both RSI variants are applied to the closes
ComputeRSI ==
    /\ impl = "indicators"
    /\ pc = "start"
    /\ ind' = [rsiArray |-> calculateRSI(Closes(candles), config.period),
               rsiResult |-> store_calculateRSI(Closes(candles), config.period)]
    /\ pc' = "rsi"
    /\ UNCHANGED <<candles, config, impl, i, rt, st, result, analysis>>

\* both MACD variants are applied to the closes, with the default periods 12, 26, 9
ComputeMACD ==
    /\ impl = "indicators"
    /\ pc = "rsi"
    /\ result' = [macdResult |-> calculateMACD(Closes(candles)),
                  store |-> store_calculateMACD(Closes(candles), 12, 26, 9)]
    /\ pc' = "done"
    /\ UNCHANGED <<candles, config, impl, i, ind, rt, st, analysis>>

NextIndicators == ComputeRSI \/ ComputeMACD

SpecIndicators == InitIndicators /\ [][NextIndicators]_vars

-----------------------------------------------------------------------------
(* Support and resistance levels of one candle series *)

\* number of single spikes in a series
MaxSpikes == 3

\* a candle between spikes, and the pairs of candles a series may end with
Quiet == Candle(500, 400, 450, 100)

Endings == {Quiet, Candle(380, 370, 375, 100), Candle(560, 550, 555, 100)}

\* highs above and lows below the quiet range
SpikePrices == {510, 520, 525, 750, 390, 385, 300}

\* a candle spiking to price e, followed by two quiet candles
Spike(e) ==
    <<IF e > Quiet.high THEN Candle(e, Quiet.low, Quiet.close, 100)
      ELSE Candle(Quiet.high, e, Quiet.close, 100), Quiet, Quiet>>

RECURSIVE Spikes(_)
Spikes(prices) == IF prices = <<>> THEN <<>> ELSE Spike(Head(prices)) \o Spikes(Tail(prices))

\* six spikes to the same high, or none
Ripples == {<<>>, <<510, 510, 510, 510, 510, 510>>}

\* quiet candles, the spikes, and the last two candles replaced by an ending
LevelSeries(ripple, prices, ending) ==
    LET body == <<Quiet, Quiet, Quiet, Quiet>> \o Spikes(ripple) \o Spikes(prices)
    IN SubSeq(body, 1, Len(body) - 2) \o <<ending, ending>>

LevelInputs ==
    {LevelSeries(ripple, prices, ending) :
        ripple \in Ripples,
        prices \in UNION {[1..k -> SpikePrices] : k \in 0..MaxSpikes},
        ending \in Endings}

InitLevels ==
    /\ candles \in LevelInputs
    /\ impl = "levels"
    /\ pc = "start"
    /\ i = 0
    /\ config = Null
    /\ ind = Null
    /\ rt = Null
    /\ st = Null
    /\ result = Null
    /\ analysis = Null

\* findSupportResistance with the default lookback 100 and threshold 0.02
FindLevels ==
    /\ impl = "levels"
    /\ pc = "start"
    /\ ind' = findSupportResistance(candles, 100, RNorm(2, 100))
    /\ pc' = "levels"
    /\ UNCHANGED <<candles, config, impl, i, rt, st, result, analysis>>

\* getNearestLevels on the last close and the levels found
Nearest ==
    /\ impl = "levels"
    /\ pc = "levels"
    /\ analysis' = getNearestLevels(candles[Len(candles)].close, ind)
    /\ pc' = "done"
    /\ UNCHANGED <<candles, config, impl, i, ind, rt, st, result>>

NextLevels == FindLevels \/ Nearest

SpecLevels == InitLevels /\ [][NextLevels]_vars

-----------------------------------------------------------------------------
(* The analysis of short and of flat candle series *)

\* a candle of a narrow range, and the same candle with a low or a high standing out
Calm == Candle(452, 448, 450, 100)

ShortCandles ==
    {Calm, Candle(452, 445, 450, 100), Candle(452, 430, 450, 100),
     Candle(455, 448, 450, 100), Candle(470, 448, 450, 100)}

\* a series of len candles with the candles a, b, c, d at positions 3, 6, 9 and 12
ShortSeries(len, a, b, c, d) ==
    [k \in 1..len |->
        IF k = 3 THEN a ELSE IF k = 6 THEN b ELSE IF k = 9 THEN c ELSE IF k = 12 THEN d
        ELSE Calm]

\* the non-empty series shorter than the 15 closes the first RSI value needs
ShortInputs ==
    {ShortSeries(len, a, b, c, d) :
        len \in 1..14, a \in ShortCandles, b \in ShortCandles, c \in ShortCandles,
        d \in ShortCandles}

\* series whose high, low and close are one price and whose volume is one number
FlatInputs ==
    {[k \in 1..len |-> Candle(price, price, price, volume)] :
        len \in {200, 201, 260}, price \in {1, 480}, volume \in {1, 100}}

InitCorner ==
    /\ candles \in ShortInputs \cup FlatInputs
    /\ impl = "analysis"
    /\ pc = "start"
    /\ i = 0
    /\ config = Null
    /\ ind = Null
    /\ rt = Null
    /\ st = Null
    /\ result = Null
    /\ analysis = Null

SpecCorner == InitCorner /\ [][NextAnalysis]_vars

-----------------------------------------------------------------------------

(* The guarded divisions of calculateRSI, calculateBollingerBands and analyzeVolume *)

\* length of the series handed to the three calculators
MaxGuardLen == 4

\* closes and volumes, a zero and a pair cancelling in a sum among them
GuardValues == {-3, 0, 3, 5}

\* series whose k-th candle has the value f[k] as its prices and as its volume
GuardSeries(f) == [k \in 1..Len(f) |-> Candle(f[k], f[k], f[k], f[k])]

GuardInputs ==
    {GuardSeries(f) : f \in UNION {[1..len -> GuardValues] : len \in 1..MaxGuardLen}}

InitGuards ==
    /\ candles \in GuardInputs
    /\ config \in [period : {1, 2, 3}]
    /\ impl = "guards"
    /\ pc = "start"
    /\ i = 0
    /\ ind = Null
    /\ rt = Null
    /\ st = Null
    /\ result = Null
    /\ analysis = Null

\* the three calculators on the closes and the volumes of the series
Calculate ==
    /\ impl = "guards"
    /\ pc = "start"
    /\ ind' = [rsiArray |-> calculateRSI(Closes(candles), config.period),
               bollinger |-> calculateBollingerBands(Closes(candles), config.period, 2),
               volumeAnalysis |-> analyzeVolume(Volumes(candles), config.period)]
    /\ pc' = "done"
    /\ UNCHANGED <<candles, config, impl, i, rt, st, result, analysis>>

NextGuards == Calculate

SpecGuards == InitGuards /\ [][NextGuards]_vars

-----------------------------------------------------------------------------

(* crypto/apis.ts: rateLimit.  Time is counted in units of 100 ms. *)

\* number of callers of rateLimit
MaxCallers == 3

\* how many units after its delay a timer may fire
MaxLate == 1

\* the clock when the first caller may call, and the last instant a caller may call
Epoch == 50

CallDeadline == Epoch + 1

Callers == 1..MaxCallers

Apis == {"coingecko", "binance"}

\* lines 18-29; queue holds the callers whose callback is chained and not yet done,
\* sleeping and wake the timer of line 43
rateLimiters ==
    [api \in Apis |->
        [lastCall |-> 0, minInterval |-> IF api = "coingecko" THEN 50 ELSE 1,
         queue |-> <<>>, sleeping |-> FALSE, wake |-> 0]]

\* every release happens before this instant
RateHorizon == CallDeadline + MaxCallers * (50 + MaxLate)

\* variant: the interval since the last call is never waited for
Delay_None(limiter, now) == 0

\* lines 40-43: the delay of the timer, 0 when no timer is set
Delay(limiter, now) ==
    LET timeSinceLastCall == now - limiter.lastCall
    IN IF timeSinceLastCall < limiter.minInterval
       THEN limiter.minInterval - timeSinceLastCall ELSE 0

InitRate ==
    /\ impl = "rateLimit"
    /\ i = Epoch
    /\ st = rateLimiters
    /\ pc = [c \in Callers |-> "idle"]
    /\ rt = [api \in Apis |-> <<>>]
    /\ result = [api \in Apis |-> <<>>]
    /\ candles = Null
    /\ config = Null
    /\ ind = Null
    /\ analysis = Null

\* lines 35-49: caller c chains its callback to the queue and awaits it
Call(c, api) ==
    /\ impl = "rateLimit"
    /\ pc[c] = "idle"
    /\ i <= CallDeadline
    /\ pc' = [pc EXCEPT ![c] = "waiting"]
    /\ st' = [st EXCEPT ![api].queue = Append(@, c)]
    /\ rt' = [rt EXCEPT ![api] = Append(@, c)]
    /\ UNCHANGED <<candles, config, impl, i, ind, result, analysis>>

\* line 46 and the resolution of the promise: the callback at the head of the queue
\* is done and its caller is released
Done(api) ==
    /\ st' = [st EXCEPT ![api].lastCall = i, ![api].sleeping = FALSE, ![api].queue = Tail(@)]
    /\ pc' = [pc EXCEPT ![Head(st[api].queue)] = "released"]
    /\ result' = [result EXCEPT ![api] = Append(@, [caller |-> Head(st[api].queue), time |-> i])]
    /\ UNCHANGED <<candles, config, impl, i, ind, rt, analysis>>

\* lines 38-46: the callback at the head of the queue runs: it sets the timer, or is
\* done at once when the interval has passed
Start(api) ==
    /\ impl = "rateLimit"
    /\ st[api].queue # <<>>
    /\ ~st[api].sleeping
    /\ IF Delay(st[api], i) > 0
       THEN /\ st' = [st EXCEPT ![api].sleeping = TRUE, ![api].wake = i + Delay(st[api], i)]
            /\ UNCHANGED <<candles, config, impl, pc, i, ind, rt, result, analysis>>
       ELSE Done(api)

\* line 43: the timer fires, not before its delay has passed
Wake(api) ==
    /\ impl = "rateLimit"
    /\ st[api].sleeping
    /\ i >= st[api].wake
    /\ Done(api)

\* the clock advances by d units; callbacks that can run do so first, and a timer is
\* at most MaxLate late
Tick(d) ==
    /\ impl = "rateLimit"
    /\ i + d <= RateHorizon
    /\ \A api \in Apis :
          /\ st[api].queue # <<>> => st[api].sleeping
          /\ st[api].sleeping => i + d <= st[api].wake + MaxLate
    /\ (i > CallDeadline => \E api \in Apis : st[api].sleeping)
    /\ i' = i + d
    /\ UNCHANGED <<candles, config, impl, pc, ind, rt, st, result, analysis>>

Calls == \E c \in Callers, api \in Apis : Call(c, api)

Starts == \E api \in Apis : Start(api)

Wakes == \E api \in Apis : Wake(api)

Ticks == \E d \in {1, 49} : Tick(d)

NextRate == Calls \/ Starts \/ Wakes \/ Ticks

SpecRate == InitRate /\ [][NextRate]_vars

\* callbacks run, timers fire and the clock advances
SpecRateLive ==
    SpecRate /\ WF_vars(Starts) /\ WF_vars(Wakes) /\ WF_vars(Ticks)

-----------------------------------------------------------------------------

(* crypto-apis.ts: RateLimiter.waitForSlot *)

\* the last instant of the clock
SlotHorizon == 8

\* the arguments of the constructor (lines 128-131)
Limiters == [maxRequests : {1, 2}, windowMs : {3}]

\* line 135: the requests younger than the window
Recent(requests, now, windowMs) == SelectSeq(requests, LAMBDA t : t > now - windowMs)

\* lines 137-143: the time to wait, 0 when there is a free slot
WaitTime(requests, now, limiter) ==
    IF Len(requests) >= limiter.maxRequests
    THEN Max(requests[1] + limiter.windowMs - now, 0) ELSE 0

InitSlots ==
    /\ impl = "waitForSlot"
    /\ config \in Limiters
    /\ i = 0
    /\ st = [requests |-> <<>>]
    /\ pc = [c \in Callers |-> [at |-> "idle", now |-> 0, wake |-> 0]]
    /\ result = <<>>
    /\ candles = Null
    /\ ind = Null
    /\ rt = Null
    /\ analysis = Null

\* line 145 and the return: the request is recorded with the instant the caller
\* entered, and the caller is released
Release(c, requests, now) ==
    /\ st' = [st EXCEPT !.requests = Append(requests, now)]
    /\ pc' = [pc EXCEPT ![c] = [at |-> "released", now |-> now, wake |-> pc[c].wake]]
    /\ result' = Append(result, [caller |-> c, time |-> i])

\* lines 134-145: caller c enters waitForSlot and runs up to the await, or to the end
\* when it has not to wait
Enter(c) ==
    /\ impl = "waitForSlot"
    /\ pc[c].at = "idle"
    /\ LET requests == Recent(st.requests, i, config.windowMs)
           waitTime == WaitTime(requests, i, config)
       IN IF waitTime > 0
          THEN /\ st' = [st EXCEPT !.requests = requests]
               /\ pc' = [pc EXCEPT ![c] = [at |-> "sleeping", now |-> i, wake |-> i + waitTime]]
               /\ UNCHANGED result
          ELSE Release(c, requests, i)
    /\ UNCHANGED <<candles, config, impl, i, ind, rt, analysis>>

\* lines 141-145: the timer of caller c fires and the caller runs to the end
Resume(c) ==
    /\ impl = "waitForSlot"
    /\ pc[c].at = "sleeping"
    /\ i >= pc[c].wake
    /\ Release(c, st.requests, pc[c].now)
    /\ UNCHANGED <<candles, config, impl, i, ind, rt, analysis>>

\* the clock advances; a timer is at most MaxLate late
Advance ==
    /\ impl = "waitForSlot"
    /\ i < SlotHorizon
    /\ \A c \in Callers : pc[c].at = "sleeping" => i + 1 <= pc[c].wake + MaxLate
    /\ i' = i + 1
    /\ UNCHANGED <<candles, config, impl, pc, ind, rt, st, result, analysis>>

NextSlots == (\E c \in Callers : Enter(c)) \/ (\E c \in Callers : Resume(c)) \/ Advance

SpecSlots == InitSlots /\ [][NextSlots]_vars

-----------------------------------------------------------------------------

(***************************************************************************)
(* Opportunity scan: the scan route's POST handler                         *)
(* (src/app/api/crypto/[id]/history/route.ts) and scanForOpportunities     *)
(* (part_001).  `candles' holds the market, a list of instruments with     *)
(* their candle histories; `config' holds the request body of the route.   *)
(***************************************************************************)
MaxMarket == 3

ScanPool ==
    << Extend(AnalysisHistory("dip", 60), <<"dive">>),
       Extend(AnalysisHistory("wave", 60), <<"dive">>),
       Extend(AnalysisHistory("peak", 60), <<"jump">>),
       Extend(AnalysisHistory("dip", 49), <<>>),
       Extend(AnalysisHistory("slide", 60), <<"jump">>) >>

Markets ==
    UNION {[1..n -> 1..Len(ScanPool)] : n \in 0..MaxMarket}

CryptoData(market) ==
    [k \in 1..Len(market) |-> [symbol |-> market[k], candles |-> ScanPool[market[k]]]]

ScanRequests ==
    [rsiRange : {<<0, 100 * Scale>>, <<5 * Scale, 100 * Scale>>},
     signalFilter : {{"STRONG_BUY", "BUY"}, {"SELL", "STRONG_SELL"}},
     limit : {0, 1, 2, 20}]

\* route.ts lines 344-351: the route analyses candles whose volume is 0
NoVolume(series) ==
    [k \in 1..Len(series) |-> [series[k] EXCEPT !.volume = 0]]

Opportunity(crypto, a) ==
    [symbol |-> crypto.symbol, signal |-> a.signal, signalScore |-> a.signalScore, rsi |-> a.rsi]

\* A variant of the sort that orders by ascending score.
SortByScore_Ascending(ops) ==
    LET n == Len(ops)
        rank == [j \in 1..n |->
                    Cardinality({m \in 1..n :
                        \/ ops[m].signalScore < ops[j].signalScore
                        \/ (ops[m].signalScore = ops[j].signalScore /\ m < j)})]
    IN Strict(rank, [k \in 1..n |-> ops[CHOOSE j \in 1..n : rank[j] = k - 1]])

\* A variant of the route's filter that ignores the RSI range.
POST_Passes_AnyRSI(a, request) == a.signal \in request.signalFilter

\* route.ts lines 364-373: the filters of the route
POST_Passes(a, request) ==
    /\ ~(IsNum(a.rsi) /\ (a.rsi[1] < request.rsiRange[1] \/ a.rsi[1] > request.rsiRange[2]))
    /\ a.signal \in request.signalFilter

POST_Keep(crypto, a, request) ==
    IF POST_Passes(a, request) THEN <<Opportunity(crypto, a)>> ELSE <<>>

\* route.ts lines 332-424: the body of the loop over the instruments
POST_Analyze(crypto, request) ==
    IF Len(crypto.candles) < 50 THEN <<>>
    ELSE POST_Keep(crypto, performTechnicalAnalysis(NoVolume(crypto.candles)), request)

RECURSIVE POST_Loop(_, _, _)
POST_Loop(cryptoData, k, request) ==
    IF k > Len(cryptoData) THEN <<>>
    ELSE POST_Analyze(cryptoData[k], request) \o POST_Loop(cryptoData, k + 1, request)

\* part_001 line 719
scan_Keep(crypto, a) ==
    IF a.signal = "BUY" \/ a.signal = "STRONG_BUY" THEN <<Opportunity(crypto, a)>> ELSE <<>>

\* part_001 lines 695-730
scan_Analyze(crypto) ==
    IF Len(crypto.candles) < 50 THEN <<>>
    ELSE scan_Keep(crypto, performTechnicalAnalysis(crypto.candles))

RECURSIVE scan_Loop(_, _)
scan_Loop(cryptoData, k) ==
    IF k > Len(cryptoData) THEN <<>>
    ELSE scan_Analyze(cryptoData[k]) \o scan_Loop(cryptoData, k + 1)

\* Array.prototype.sort with the comparator b.signalScore - a.signalScore
SortByScore(ops) ==
    LET n == Len(ops)
        rank == [j \in 1..n |->
                    Cardinality({m \in 1..n :
                        \/ ops[m].signalScore > ops[j].signalScore
                        \/ (ops[m].signalScore = ops[j].signalScore /\ m < j)})]
    IN Strict(rank, [k \in 1..n |-> ops[CHOOSE j \in 1..n : rank[j] = k - 1]])

\* Array.prototype.slice(0, end)
Slice(list, end) ==
    LET n == Len(list)
        to == IF end < 0 THEN Max(n + end, 0) ELSE Min(end, n)
    IN [k \in 1..to |-> list[k]]

InitScan ==
    /\ \E market \in Markets : candles = CryptoData(market)
    /\ \/ impl = "POST" /\ config \in ScanRequests
       \/ impl = "scanForOpportunities" /\ config = Null
    /\ pc = "start"
    /\ i = 0
    /\ ind = Null
    /\ rt = Null
    /\ st = Null
    /\ result = Null
    /\ analysis = Null

POST ==
    /\ impl = "POST"
    /\ pc = "start"
    /\ result' = Slice(SortByScore(POST_Loop(candles, 1, config)), config.limit)
    /\ pc' = "done"
    /\ UNCHANGED <<candles, config, impl, i, ind, rt, st, analysis>>

scanForOpportunities ==
    /\ impl = "scanForOpportunities"
    /\ pc = "start"
    /\ result' = SortByScore(scan_Loop(candles, 1))
    /\ pc' = "done"
    /\ UNCHANGED <<candles, config, impl, i, ind, rt, st, analysis>>

NextScan == POST \/ scanForOpportunities

SpecScan == InitScan /\ [][NextScan]_vars

-----------------------------------------------------------------------------

(* Views shared by the properties *)

Trades == IF impl = "route" THEN rt.trades ELSE st.trades

Position == IF impl = "route" THEN rt.position ELSE st.position

LastOf(seq) == seq[Len(seq)]

Sells(trades) == SelectType(trades, "SELL")

SellPnls(trades) == [k \in 1..Len(Sells(trades)) |-> Val(Sells(trades)[k].pnl)]

RECURSIVE route_Loop(_, _, _, _, _, _)
\* route.ts lines 116-272: the iterations lo..hi of the simulation loop
route_Loop(s, lo, hi, series, indic, cfg) ==
    IF lo > hi THEN s
    ELSE LET next == route_LoopBody(s, lo, series, indic, cfg)
         IN Strict(next, route_Loop(next, lo + 1, hi, series, indic, cfg))

RECURSIVE store_Loop(_, _, _, _, _)
\* store.ts lines 1056-1106: the iterations lo..hi of the simulation loop
store_Loop(s, lo, hi, data, cfg) ==
    IF lo > hi THEN s
    ELSE LET next == store_LoopBody(s, lo, data, cfg)
         IN Strict(next, store_Loop(next, lo + 1, hi, data, cfg))

\* the trades the loop logs when it is run on the first n candles only
TruncatedTrades(n) ==
    LET series == SubSeq(candles, 1, n)
    IN IF impl = "route"
       THEN route_Loop(route_InitState(config), Warmup, n - 1, series,
                       route_Indicators(series), config).trades
       ELSE store_Loop(store_InitState(config), Warmup, n - 1, series, config).trades

-----------------------------------------------------------------------------
(* C1: the weighted sum behind signalScore *)

\* the analysis of the current series is available
Analysed == impl = "analysis" /\ pc = "done"

\* the sum 4R + 3M + 2B + A1 + A2 + A3 + 3V + T + S + Z of the current series, R being
\* the strength of getRSISignal on every RSI that is not null
WeightedSum ==
    LET n == Len(candles)
        closes == Closes(candles)
        close == candles[n].close * Scale
        ma == analysis.movingAverages
        bb == analysis.bollingerBands
        nearest == getNearestLevels(candles[n].close,
                                    findSupportResistance(candles, 100, RNorm(2, 100)))
        R == IF IsNull(analysis.rsi) THEN 0 ELSE getRSISignal(Val(analysis.rsi)).strength
        M == getMACDSignal(analysis.macd.macd, analysis.macd.signal, analysis.macd.histogram,
                           AtLen(calculateMACD(closes).histogram, n, n - 2)).strength
        B == getBollingerSignal(close, bb.upper, bb.middle, bb.lower).strength
        A1 == IF IsNull(ma.sma20) \/ IsNull(ma.sma50) THEN 0
              ELSE IF Val(ma.sma20) > Val(ma.sma50) THEN 2 ELSE -2
        A2 == IF IsNull(ma.sma50) \/ IsNull(ma.sma200) THEN 0
              ELSE IF Val(ma.sma50) > Val(ma.sma200) THEN 2 ELSE -2
        A3 == IF IsNull(ma.sma20) THEN 0 ELSE IF close > Val(ma.sma20) THEN 1 ELSE -1
        V == getVolumeSignal(analysis.volume.ratio, closes[n] - closes[n - 1]).strength
        T == IF IsNull(ma.ema200) THEN 0 ELSE IF close < Val(ma.ema200) THEN -6 ELSE 4
        S == IF RLt(nearest.distanceToSupport, RNorm(3, 2))
             THEN 2 + nearest.nearestSupport[1].strength ELSE 0
        Z == IF RLt(nearest.distanceToResistance, RNorm(3, 2)) THEN -5 ELSE 0
    IN 4 * R + 3 * M + 2 * B + A1 + A2 + A3 + 3 * V + T + S + Z

\* C1: for every candle series signalScore is exactly 4R + 3M + 2B + A1 + A2 + A3 + 3V
\* + T + S + Z, with R the getRSISignal strength of every non-null RSI in [0, 100]
\* (the neutral 50 stands in only for a null RSI).
C1_SignalScore ==
    Analysed => analysis.signalScore = WeightedSum

-----------------------------------------------------------------------------
(* C2: the categorical signal *)

\* C2: the signal is decided by signalScore alone: STRONG_BUY iff score >= 22, BUY iff
\* 10 <= score < 22, STRONG_SELL iff score <= -22, SELL iff -22 < score <= -10,
\* NEUTRAL iff -10 < score < 10; exactly one category applies.
C2_SignalThresholds ==
    Analysed =>
        LET score == analysis.signalScore
            signal == analysis.signal
        IN /\ signal \in {"STRONG_BUY", "BUY", "NEUTRAL", "SELL", "STRONG_SELL"}
           /\ (signal = "STRONG_BUY") <=> (score >= 22)
           /\ (signal = "BUY") <=> (10 <= score /\ score < 22)
           /\ (signal = "STRONG_SELL") <=> (score <= -22)
           /\ (signal = "SELL") <=> (-22 < score /\ score <= -10)
           /\ (signal = "NEUTRAL") <=> (-10 < score /\ score < 10)

\* an analysis whose score lies between the present BUY threshold and a looser
\* STRONG_BUY one, and is classified BUY
C2_Witness ==
    Analysed /\ analysis.signalScore >= 15 /\ analysis.signalScore < 22 /\ analysis.signal = "BUY"

-----------------------------------------------------------------------------
(* C3: backtest route, conservation of money *)

-----------------------------------------------------------------------------
(* C4: single position, alternating trade log *)

Alternates(trades) ==
    \A k \in 1..Len(trades) :
        /\ trades[k].type = (IF k % 2 = 1 THEN "BUY" ELSE "SELL")
        /\ (k % 2 = 0) => trades[k].quantity = trades[k - 1].quantity

\* C4: in both implementations the trade log alternates BUY, SELL, BUY, ... starting
\* with a BUY, every SELL sells the quantity of the preceding BUY, and a position is
\* open exactly when the log ends with a BUY.
C4_SinglePosition ==
    /\ Alternates(Trades)
    /\ (RSign(Position) > 0) <=> (Len(Trades) % 2 = 1)
    /\ RSign(Position) >= 0

\* a position re-opened after an earlier one was closed
C4_Witness ==
    /\ Len(Trades) >= 3
    /\ RSign(Position) > 0

-----------------------------------------------------------------------------
(* C5: no lookahead *)

\* C5: in both implementations, the trades logged for the candles processed so far
\* are the trades the loop logs on the series truncated after those candles.
C5_NoLookahead ==
    (pc = "loop") => Trades = TruncatedTrades(i)

\* trades were logged while candles that are not yet processed remain
C5_Witness ==
    /\ pc = "loop" /\ i > Warmup /\ i < Len(candles)
    /\ Len(Trades) >= 2

-----------------------------------------------------------------------------
(* C6: entry rule of the store's runBacktest *)

\* the MACD histogram of a close series: MACD line (EMA12 - EMA26, defined from the
\* 26th close on) minus its signal line (SMA-seeded EMA9 of the MACD line)
MACDHistogramReference(closes) ==
    LET ema12 == calculateEMA(closes, 12)
        ema26 == calculateEMA(closes, 26)
        macdLine == [k \in 1..(Len(closes) - 25) |-> Val(ema12[k + 25]) - Val(ema26[k + 25])]
        signalLine == calculateEMA(macdLine, 9)
    IN LastOf(macdLine) - Val(LastOf(signalLine))

\* the entry condition over the candles available at step i: data.slice(0, i)
StoreBuyCondition ==
    LET closes == Closes(SubSeq(candles, 1, i))
    IN /\ RSign(st.position) = 0
       /\ store_calculateRSI(closes, 14).value < config.rsiOversold * Scale
       /\ MACDHistogramReference(closes) > 0

\* the step logs a BUY that invests all of the capital
StoreBuyLogged ==
    /\ Len(st'.trades) = Len(st.trades) + 1
    /\ LastOf(st'.trades).type = "BUY"
    /\ LastOf(st'.trades).quantity = RDiv(st.capital, RInt(candles[i].close))
    /\ st'.capital = RInt(0)

\* C6: at every step of the store's simulation a BUY is logged if and only if no
\* position is open, the RSI of the available candles is below rsiOversold and
\* their MACD histogram is positive; the BUY invests all of the capital.
C6_BuyIffOversoldAndMACD ==
    [][(impl = "store" /\ pc = "loop" /\ i' = i + 1) => (StoreBuyLogged <=> StoreBuyCondition)]_vars

-----------------------------------------------------------------------------
(* C7: stop-loss and take-profit exits of the route *)

\* entry * (1 - stopLossPercent / 100) and entry * (1 + takeProfitPercent / 100)
StopLossPrice == RMul(rt.entryPrice, RSub(RInt(1), RNorm(config.stopLossPercent, 100)))

TakeProfitPrice == RMul(rt.entryPrice, RAdd(RInt(1), RNorm(config.takeProfitPercent, 100)))

\* a route step that starts with an open position
RouteStepInPosition == impl = "route" /\ pc = "loop" /\ i' = i + 1 /\ RSign(rt.position) > 0

HitsStopLoss == RLe(RInt(candles[i + 1].low), StopLossPrice)

HitsTakeProfit == RGe(RInt(candles[i + 1].high), TakeProfitPrice)

\* the step closes the whole position on candle i at the given price
ClosedAt(price, reason) ==
    /\ rt'.trades = Append(rt.trades, LastOf(rt'.trades))
    /\ LastOf(rt'.trades).type = "SELL"
    /\ LastOf(rt'.trades).timestamp = i
    /\ LastOf(rt'.trades).price = price
    /\ LastOf(rt'.trades).quantity = rt.position
    /\ LastOf(rt'.trades).reason = <<reason>>
    /\ RSign(rt'.position) = 0

-----------------------------------------------------------------------------
(* C8: forced close at the end of the series *)

\* closed positions counted as winners or losers so far: the route counts as it
\* goes, the store pairs the logged BUYs and SELLs at the end
Counted ==
    IF impl = "route" THEN rt.winningTrades + rt.losingTrades
    ELSE Min(Len(SelectType(st.trades, "BUY")), Len(SelectType(st.trades, "SELL")))

-----------------------------------------------------------------------------
(* C9: totalTrades *)

\* C9: in both implementations the returned totalTrades is the length of the
\* returned trade log.
C9_TotalTrades ==
    (pc = "done") => result.totalTrades = Len(result.trades)

-----------------------------------------------------------------------------
(* C10: winners and losers of the route *)

Winners(trades) == {k \in 1..Len(Sells(trades)) : RSign(Val(Sells(trades)[k].pnl)) > 0}

\* C10: for stopLossPercent > 0 and takeProfitPercent > 0, every SELL of the route is
\* counted once: winningTrades is the number of SELLs with pnl > 0, winningTrades +
\* losingTrades is the number of SELLs, and the returned winRate is
\* 100 * winningTrades / (winningTrades + losingTrades), or 0 without closed trades.
C10_WinLossCount ==
    (impl = "route" /\ config.stopLossPercent > 0 /\ config.takeProfitPercent > 0) =>
        /\ rt.winningTrades = Cardinality(Winners(rt.trades))
        /\ rt.winningTrades + rt.losingTrades = Len(Sells(rt.trades))
        /\ (pc = "done") =>
              result.winRate = IF Len(Sells(rt.trades)) = 0 THEN RInt(0)
                               ELSE RNorm(100 * rt.winningTrades, Len(Sells(rt.trades)))

\* a finished run with a stop-loss exit, a winner and a loser
C10_Witness ==
    /\ impl = "route" /\ pc = "done"
    /\ config.stopLossPercent > 0 /\ config.takeProfitPercent > 0
    /\ rt.winningTrades >= 1 /\ rt.losingTrades >= 1

-----------------------------------------------------------------------------
(* C13: the classification of an RSI value *)

\* the RSI value i has been classified
Classified == impl = "signal" /\ pc = "done"

\* C13: getRSISignal gives strength +5 iff r < 20, +4 iff 20 <= r <= 30, +2 in the
\* 30-40 band, -2 in the 60-70 band, -4 iff 70 <= r <= 80, -5 iff r > 80 and 0
\* otherwise; r = 20 is oversold (+4) and r = 80 is overbought (-4).
C13_RSIClassification ==
    Classified =>
        LET r == i
            strength == analysis.strength
        IN /\ strength \in {5, 4, 2, 0, -2, -4, -5}
           /\ (strength = 5) <=> (r < 20 * Scale)
           /\ (strength = 4) <=> (20 * Scale <= r /\ r <= 30 * Scale)
           /\ (30 * Scale < r /\ r < 40 * Scale) => strength = 2
           /\ (strength = 2) => (30 * Scale <= r /\ r <= 40 * Scale)
           /\ (40 * Scale < r /\ r < 60 * Scale) => strength = 0
           /\ (strength = 0) => (40 * Scale <= r /\ r <= 60 * Scale)
           /\ (60 * Scale < r /\ r < 70 * Scale) => strength = -2
           /\ (strength = -2) => (60 * Scale <= r /\ r <= 70 * Scale)
           /\ (strength = -4) <=> (70 * Scale <= r /\ r <= 80 * Scale)
           /\ (strength = -5) <=> (r > 80 * Scale)
           /\ (strength = 5) <=> (analysis.signal = "STRONG_OVERSOLD")
           /\ (strength = 4) <=> (analysis.signal = "OVERSOLD")
           /\ (strength = 2) <=> (analysis.signal = "SLIGHTLY_OVERSOLD")
           /\ (strength = 0) <=> (analysis.signal = "NEUTRAL")
           /\ (strength = -2) <=> (analysis.signal = "SLIGHTLY_OVERBOUGHT")
           /\ (strength = -4) <=> (analysis.signal = "OVERBOUGHT")
           /\ (strength = -5) <=> (analysis.signal = "STRONG_OVERBOUGHT")

\* the same classification away from the two values 20 and 80
C13_ExceptBoundaries ==
    (i # 20 * Scale /\ i # 80 * Scale) => C13_RSIClassification

-----------------------------------------------------------------------------
(* C17: the trend *)

\* C17: trend is BULLISH iff ema20 and ema50 are non-null and close > ema20 > ema50,
\* BEARISH iff they are non-null and close < ema20 < ema50, and SIDEWAYS in every
\* other case, in particular whenever ema20 or ema50 is null.
C17_Trend ==
    Analysed =>
        LET close == candles[Len(candles)].close * Scale
            ema20 == analysis.movingAverages.ema20
            ema50 == analysis.movingAverages.ema50
            both == IsNum(ema20) /\ IsNum(ema50)
            up == both /\ close > Val(ema20) /\ Val(ema20) > Val(ema50)
            down == both /\ close < Val(ema20) /\ Val(ema20) < Val(ema50)
        IN /\ (analysis.trend = "BULLISH") <=> up
           /\ (analysis.trend = "BEARISH") <=> down
           /\ (analysis.trend = "SIDEWAYS") <=> (~up /\ ~down)
           /\ ema20 = calculateEMA(Closes(candles), 20)[Len(candles)]
           /\ Len(candles) >= 50 => ema50 = calculateEMA(Closes(candles), 50)[Len(candles)]
           /\ Len(candles) < 50 => (IsNull(ema50) /\ analysis.trend = "SIDEWAYS")

\* an analysis whose close lies above ema20 while ema20 lies below ema50, and whose
\* trend is SIDEWAYS
C17_Witness ==
    /\ Analysed
    /\ IsNum(analysis.movingAverages.ema20) /\ IsNum(analysis.movingAverages.ema50)
    /\ candles[Len(candles)].close * Scale > Val(analysis.movingAverages.ema20)
    /\ Val(analysis.movingAverages.ema20) < Val(analysis.movingAverages.ema50)
    /\ analysis.trend = "SIDEWAYS"

\* analyses with a BULLISH and with a BEARISH trend
C17_Bullish == Analysed /\ analysis.trend = "BULLISH"

C17_Bearish == Analysed /\ analysis.trend = "BEARISH"

-----------------------------------------------------------------------------
(* C11: bounds of the RSI *)

\* both RSI variants have been applied to the closes
RSIComputed == impl = "indicators" /\ pc \in {"rsi", "done"}

\* no close of the 1-based changes from..to of the series is below its predecessor
NoLossIn(closes, from, to) == \A k \in from..to : closes[k + 1] >= closes[k]

\* the averages <<avgGain, avgLoss>> the store's calculateRSI ends with
StoreAverages(closes, period) ==
    LET changes == [k \in 1..(Len(closes) - 1) |-> closes[k + 1] - closes[k]]
        gains == SumRange([k \in 1..period |-> IF changes[k] > 0 THEN changes[k] ELSE 0], 1, period)
        losses == SumRange([k \in 1..period |-> IF changes[k] > 0 THEN 0 ELSE Abs(changes[k])], 1, period)
    IN store_RSILoop(changes, period, period + 1, Len(changes),
                     <<Div(gains, period), Div(losses, period)>>)

\* C11: every non-null value of the array variant and the value of the single-value
\* variant lie in [0, 100], and the RSI is 100 whenever the average loss is zero (for
\* the array variant: whenever the window of period changes holds no loss).
C11_RSIBounds ==
    RSIComputed =>
        LET closes == Closes(candles)
            period == config.period
            rsiArray == ind.rsiArray
            value == ind.rsiResult.value
        IN /\ \A k \in 1..Len(rsiArray) :
                 IsNum(rsiArray[k]) =>
                    /\ 0 <= Val(rsiArray[k]) /\ Val(rsiArray[k]) <= 100 * Scale
                    /\ NoLossIn(closes, k - period, k - 1) => Val(rsiArray[k]) = 100 * Scale
           /\ 0 <= value /\ value <= 100 * Scale
           /\ (Len(closes) >= period + 1 /\ StoreAverages(closes, period)[2] = 0)
                 => value = 100 * Scale

\* a series with losses and gains whose RSI values lie strictly between 0 and 100 in
\* both variants, after an index at which the window holds no loss
C11_Witness ==
    /\ RSIComputed
    /\ Len(candles) >= config.period + 2
    /\ ind.rsiResult.value > 0 /\ ind.rsiResult.value < 100 * Scale
    /\ Val(ind.rsiArray[Len(candles)]) > 0 /\ Val(ind.rsiArray[Len(candles)]) < 100 * Scale
    /\ \E k \in 1..Len(candles) : ind.rsiArray[k] = Num(100 * Scale)

\* a series whose single-value RSI is pinned to 100 by a zero average loss
C11_Pinned ==
    /\ RSIComputed
    /\ Len(candles) >= config.period + 1
    /\ StoreAverages(Closes(candles), config.period)[2] = 0
    /\ ind.rsiResult.value = 100 * Scale

-----------------------------------------------------------------------------
(* C12: RSI on insufficient data *)

\* C12: the single-value variant returns 50 with signal NEUTRAL whenever fewer than
\* period + 1 closes are supplied; the array variant returns an array of the input's
\* length that is null at exactly the indices below period and a number from index
\* period on.
C12_RSIInsufficientData ==
    RSIComputed =>
        LET period == config.period
            rsiArray == ind.rsiArray
        IN /\ Len(candles) < period + 1 =>
                 (ind.rsiResult.value = 50 * Scale /\ ind.rsiResult.signal = "NEUTRAL")
           /\ Len(rsiArray) = Len(candles)
           /\ \A k \in 1..Len(rsiArray) :
                 /\ IsNull(rsiArray[k]) <=> (k - 1 < period)
                 /\ IsNum(rsiArray[k]) <=> (k - 1 >= period)

\* fewer than period + 1 closes: the array is null throughout, the single value is 50
C12_Witness ==
    /\ RSIComputed
    /\ Len(candles) >= 2 /\ Len(candles) < config.period + 1
    /\ ind.rsiResult.value = 50 * Scale
    /\ \A k \in 1..Len(candles) : IsNull(ind.rsiArray[k])

\* exactly period + 1 closes: the array holds one number, at index period
C12_FirstValue ==
    /\ RSIComputed
    /\ Len(candles) = config.period + 1
    /\ IsNum(ind.rsiArray[Len(candles)])
    /\ IsNull(ind.rsiArray[Len(candles) - 1])

-----------------------------------------------------------------------------
(* C14: the two RSI variants compared *)

\* RSI values further apart than this differ by more than the rounding of the
\* fixed-point arithmetic can explain
RSITolerance == 5 * Scale

\* C14: for every close series of at least period + 1 closes the last element of the
\* array variant equals the value of the single-value variant, both being the
\* Wilder-smoothed RSI (averages seeded as simple means of the first period changes,
\* each later average computed from the previous smoothed average).
C14_SameRSI ==
    (RSIComputed /\ Len(candles) >= config.period + 1) =>
        Abs(Val(ind.rsiArray[Len(candles)]) - ind.rsiResult.value) <= RSITolerance

\* with exactly period + 1 closes, where only the seed averages are used, the two
\* variants agree
C14_SameSeed ==
    (RSIComputed /\ Len(candles) = config.period + 1) =>
        Val(ind.rsiArray[Len(candles)]) = ind.rsiResult.value

-----------------------------------------------------------------------------
(* C15: MACD on insufficient history *)

\* both MACD variants have been applied to the closes
MACDComputed == impl = "indicators" /\ pc = "done"

\* C15: for every close series with fewer than 35 closes the signal-line value and
\* the histogram value at the last index are null in both calculateMACD variants.
C15_MACDInsufficientData ==
    (MACDComputed /\ Len(candles) < 26 + 9) =>
        /\ IsNull(result.macdResult.signal[Len(candles)])
        /\ IsNull(result.macdResult.histogram[Len(candles)])
        /\ IsNull(result.store.signal)
        /\ IsNull(result.store.histogram)

\* the single-value variant reports null for macd, signal and histogram on fewer than
\* 35 closes, and the array variant reports null for the MACD line below 26 closes
\* and for the signal line below 9 closes
C15_NullWhereUndefined ==
    (MACDComputed /\ Len(candles) < 26 + 9) =>
        /\ IsNull(result.store.macd) /\ IsNull(result.store.signal)
        /\ IsNull(result.store.histogram)
        /\ IsNull(result.macdResult.macd[Len(candles)]) <=> (Len(candles) < 26)
        /\ IsNull(result.macdResult.signal[Len(candles)]) <=> (Len(candles) < 9)
        /\ IsNull(result.macdResult.histogram[Len(candles)]) <=> (Len(candles) < 26)

-----------------------------------------------------------------------------
(* C16: the single-value MACD *)

\* C16: for every close series of at least 26 + 9 closes the macd, signal and
\* histogram returned by the store's calculateMACD are finite numbers, macd is
\* EMA(12) minus EMA(26) of the closes at the last index, and histogram is macd
\* minus signal.
C16_StoreMACD ==
    (MACDComputed /\ Len(candles) >= 26 + 9) =>
        /\ IsNum(result.store.macd)
        /\ IsNum(result.store.signal)
        /\ IsNum(result.store.histogram)
        /\ Val(result.store.macd) = Val(store_calculateEMA(Closes(candles), 12))
                                    - Val(store_calculateEMA(Closes(candles), 26))
        /\ Val(result.store.histogram) = Val(result.store.macd) - Val(result.store.signal)

\* on 35 closes or more the store's macd, signal and histogram are all NaN
C16_AlwaysNaN ==
    (MACDComputed /\ Len(candles) >= 26 + 9) =>
        /\ IsNaN(result.store.macd)
        /\ IsNaN(result.store.signal)
        /\ IsNaN(result.store.histogram)

-----------------------------------------------------------------------------
(* C18: order of the returned levels *)

\* findSupportResistance has been applied to the series
LevelsFound == impl = "levels" /\ pc \in {"levels", "done"}

\* price hi lies above price lo by at least the relative merge threshold 0.02
Apart(hi, lo) == RGt(hi, lo) /\ RGe(RDiv(RSub(hi, lo), hi), RNorm(2, 100))

\* C18: with positive prices and the default threshold 0.02 the returned supports are
\* strictly descending by price and the returned resistances strictly ascending, and
\* two neighbouring levels of one type differ by at least the relative threshold.
C18_LevelOrder ==
    LevelsFound =>
        /\ \A k \in 1..(Len(ind.supports) - 1) :
              Apart(ind.supports[k].price, ind.supports[k + 1].price)
        /\ \A k \in 1..(Len(ind.resistances) - 1) :
              Apart(ind.resistances[k + 1].price, ind.resistances[k].price)
        /\ \A k \in 1..Len(ind.supports) : ind.supports[k].type = "support"
        /\ \A k \in 1..Len(ind.resistances) : ind.resistances[k].type = "resistance"

\* a series with two supports and two resistances, one of them merged from several
\* candidates
C18_Witness ==
    /\ LevelsFound
    /\ Len(ind.supports) >= 2
    /\ Len(ind.resistances) >= 2
    /\ \E k \in 1..Len(ind.resistances) : ind.resistances[k].touches >= 2

-----------------------------------------------------------------------------
(* C19: merging of the candidates *)

\* the local extrema of the last 100 candles, in the order they are found
Candidates ==
    LET n == Min(100, Len(candles))
    IN LevelsLoop([k \in 1..n |-> candles[Len(candles) - n + k]], 3, n - 2)

\* prices of the candidates of one type, ascending
CandidatePrices(type) ==
    LET sorted == SortLevels(FilterType(Candidates, type), 1)
    IN [k \in 1..Len(sorted) |-> sorted[k].price]

\* the returned levels of one type, ascending by price
Returned(type) ==
    IF type = "support" THEN SortLevels(ind.supports, 1) ELSE SortLevels(ind.resistances, 1)

RECURSIVE TouchSum(_, _)
\* touches of the first j levels
TouchSum(returned, j) ==
    IF j = 0 THEN 0 ELSE TouchSum(returned, j - 1) + returned[j].touches

\* C19: every candidate is folded into exactly one returned level of its own type:
\* taken in ascending order, the returned levels of a type stand for consecutive
\* groups of the ascending candidate prices of that type, touches being the size of
\* the group and price its arithmetic mean; the touches sum to the number of
\* candidates, touches >= 1 and strength = min(5, touches), which lies in 1..5.
C19_Merging ==
    (LevelsFound /\ Len(candles) >= 10) =>
        \A type \in {"support", "resistance"} :
            LET returned == Returned(type)
                prices == CandidatePrices(type)
            IN /\ TouchSum(returned, Len(returned)) = Len(prices)
               /\ \A j \in 1..Len(returned) :
                     LET first == TouchSum(returned, j - 1) + 1
                         touches == returned[j].touches
                     IN /\ touches >= 1
                        /\ returned[j].strength = Min(5, touches)
                        /\ returned[j].strength \in 1..5
                        /\ first + touches - 1 <= Len(prices)
                        /\ returned[j].price =
                              RDiv(RSum(SubSeq(prices, first, first + touches - 1)),
                                   RInt(touches))

\* a resistance merged from candidates of different prices, with more than five
\* touches, beside a level that stands for a single candidate
C19_Witness ==
    /\ LevelsFound
    /\ Len(candles) >= 10
    /\ \E k \in 1..Len(ind.resistances) :
          /\ ind.resistances[k].touches > 5
          /\ ind.resistances[k].strength = 5
          /\ ind.resistances[k].price[2] # 1
    /\ \E k \in 1..Len(ind.supports) : ind.supports[k].touches = 1

-----------------------------------------------------------------------------
(* C20: the nearest levels *)

\* getNearestLevels has been applied to the levels found
NearestFound == impl = "levels" /\ pc = "done"

\* the levels of a list strictly below (side = -1) or strictly above (side = 1) price
OnSide(list, price, side) ==
    {k \in 1..Len(list) :
        IF side < 0 THEN RLt(list[k].price, RInt(price)) ELSE RGt(list[k].price, RInt(price))}

\* found is <<>> when no level of the list lies on the side, and otherwise the level
\* on that side closest to price; distance is 100 in the first case and the positive
\* percentage |level - price| / price * 100 in the second
NearestOnSide(found, distance, list, price, side) ==
    LET onSide == OnSide(list, price, side)
    IN IF onSide = {}
       THEN found = <<>> /\ distance = RInt(100)
       ELSE /\ \E k \in onSide :
                  /\ found = <<list[k]>>
                  /\ \A j \in onSide :
                        IF side < 0 THEN RLe(list[j].price, list[k].price)
                        ELSE RGe(list[j].price, list[k].price)
            /\ distance = RMul(RDiv(IF side < 0 THEN RSub(RInt(price), found[1].price)
                                    ELSE RSub(found[1].price, RInt(price)),
                                    RInt(price)),
                               RInt(100))
            /\ RSign(distance) > 0

\* C20 as stated: besides the above, the distance on a side is 100 exactly when the
\* level on that side is missing.
C20_Original ==
    NearestFound =>
        LET currentPrice == candles[Len(candles)].close
        IN /\ NearestOnSide(analysis.nearestSupport, analysis.distanceToSupport,
                            ind.supports, currentPrice, -1)
           /\ NearestOnSide(analysis.nearestResistance, analysis.distanceToResistance,
                            ind.resistances, currentPrice, 1)
           /\ (analysis.distanceToSupport = RInt(100)) <=> (analysis.nearestSupport = <<>>)
           /\ (analysis.distanceToResistance = RInt(100)) <=> (analysis.nearestResistance = <<>>)

\* C20: nearestSupport is the highest support strictly below currentPrice and
\* nearestResistance the lowest resistance strictly above it, null if there is none;
\* the distance is 100 when the level on that side is missing and otherwise the
\* strictly positive percentage |level - currentPrice| / currentPrice * 100, which
\* is below 100 for a support and is 100 again for a resistance at twice currentPrice.
C20_NearestLevels ==
    NearestFound =>
        LET currentPrice == candles[Len(candles)].close
        IN /\ NearestOnSide(analysis.nearestSupport, analysis.distanceToSupport,
                            ind.supports, currentPrice, -1)
           /\ NearestOnSide(analysis.nearestResistance, analysis.distanceToResistance,
                            ind.resistances, currentPrice, 1)
           /\ (analysis.distanceToSupport = RInt(100)) <=> (analysis.nearestSupport = <<>>)
           /\ (analysis.distanceToResistance = RInt(100)) <=>
                 \/ analysis.nearestResistance = <<>>
                 \/ analysis.nearestResistance[1].price = RInt(2 * currentPrice)

\* a support above the last close and a lower one that is reported as nearest, with a
\* resistance above the close
C20_Witness ==
    /\ NearestFound
    /\ Len(ind.supports) >= 2
    /\ RGt(ind.supports[1].price, RInt(candles[Len(candles)].close))
    /\ analysis.nearestSupport # <<>>
    /\ analysis.nearestSupport[1] # ind.supports[1]
    /\ analysis.nearestResistance # <<>>

\* a series without any resistance above the last close: the distance is 100
C20_Missing ==
    /\ NearestFound
    /\ ind.resistances # <<>>
    /\ analysis.nearestResistance = <<>>
    /\ analysis.distanceToResistance = RInt(100)

-----------------------------------------------------------------------------
(* C22: series shorter than the smallest indicator window *)

\* C22: for every non-empty series of fewer than 15 candles performTechnicalAnalysis
\* returns its record, with no RSI value and a score too small for a verdict: the
\* signal is NEUTRAL.
C22_GracefulDegradation ==
    (Analysed /\ Len(candles) < 15) =>
        /\ analysis.signal = "NEUTRAL"
        /\ analysis.signalScore \in -9..9
        /\ IsNull(analysis.rsi)
        /\ analysis.trend = "SIDEWAYS"

\* a short series whose last close stands just above a support touched three times:
\* the only contribution to the score is the support bonus
C22_Witness ==
    /\ Analysed
    /\ Len(candles) < 15
    /\ analysis.signalScore >= 5
    /\ analysis.signal = "NEUTRAL"

\* a single candle
C22_Single ==
    /\ Analysed
    /\ Len(candles) = 1
    /\ analysis.signal = "NEUTRAL"

-----------------------------------------------------------------------------
(* C30: a perfectly flat market *)

\* the series is at least 200 candles of one price and one volume
FlatMarket ==
    /\ Len(candles) >= 200
    /\ \A k \in 1..Len(candles) :
          /\ candles[k] = candles[1]
          /\ candles[k].high = candles[k].close
          /\ candles[k].low = candles[k].close
          /\ candles[k].close > 0
          /\ candles[k].volume > 0

\* C30: on a flat market of at least 200 candles performTechnicalAnalysis gives no
\* directional verdict: the signal is NEUTRAL.
C30_FlatNeutral ==
    (Analysed /\ FlatMarket) => analysis.signal = "NEUTRAL"

\* what the code returns on a flat market: the RSI is pinned at 100 because no close
\* is lower than the one before, the zero histogram counts as bearish, the price on
\* the middle band counts as the lower half, equal averages count as descending, and
\* the score of -26 is a STRONG_SELL.
C30_FlatStrongSell ==
    (Analysed /\ FlatMarket) =>
        /\ analysis.rsi = Num(100 * Scale)
        /\ analysis.macd.histogram = Num(0)
        /\ analysis.signalScore = -26
        /\ analysis.signal = "STRONG_SELL"

-----------------------------------------------------------------------------
(* C29: the second support and the second resistance of the result *)

\* the levels findSupportResistance yields for the analysed series (line 551)
FoundLevels == findSupportResistance(candles, 100, RNorm(2, 100))

\* price of the second level of a list, null when there are fewer than two
SecondPrice(list) == IF Len(list) >= 2 THEN Num(list[2].price) ELSE Null

\* C29: support2 (resistance2) of the result is the price of the second support
\* (resistance) findSupportResistance yields for the series, and null only when
\* there are fewer than two.
C29_SecondLevel ==
    Analysed =>
        /\ analysis.supportResistance.support2 = SecondPrice(FoundLevels.supports)
        /\ analysis.supportResistance.resistance2 = SecondPrice(FoundLevels.resistances)

\* what the code returns: both fields are read from the empty module-level object
\* and are null for every series
C29_AlwaysNull ==
    Analysed =>
        /\ IsNull(analysis.supportResistance.support2)
        /\ IsNull(analysis.supportResistance.resistance2)

\* a series with two supports and two resistances
C29_TwoLevels ==
    /\ Analysed
    /\ Len(FoundLevels.supports) >= 2
    /\ Len(FoundLevels.resistances) >= 2

-----------------------------------------------------------------------------
(* C27: the candle of a BUY and the candle of the SELL closing it *)

\* every SELL of the route's trade log follows a BUY logged at a strictly earlier
\* candle
LaterSell(trades) ==
    \A k \in 2..Len(trades) :
        (trades[k].type = "SELL" /\ trades[k - 1].type = "BUY")
            => trades[k].timestamp > trades[k - 1].timestamp

\* C27: runBacktest of the route never opens and closes a position on one candle:
\* every SELL (signal exit, stop-loss, take-profit or end-of-backtest close) belongs
\* to a candle with a strictly later index than the BUY it closes.
C27_NoSameCandleRoundTrip ==
    impl = "route" => LaterSell(rt.trades)

\* C27 for the exits inside the loop: only the signal exit can share the candle of the
\* BUY; stop-loss and take-profit exits come at a later candle
C27_StopExitsLater ==
    impl = "route" =>
        \A k \in 2..Len(rt.trades) :
            (rt.trades[k].reason \in {<<"Stop Loss">>, <<"Take Profit">>}) => rt.trades[k].timestamp > rt.trades[k - 1].timestamp

\* a BUY and a signal exit logged at one candle inside the loop
C27_SameCandleSignalExit ==
    /\ impl = "route"
    /\ \E k \in 2..Len(rt.trades) :
          /\ rt.trades[k].type = "SELL"
          /\ rt.trades[k - 1].type = "BUY"
          /\ rt.trades[k].timestamp = rt.trades[k - 1].timestamp
          /\ rt.trades[k].reason # <<"End of backtest">>

\* a BUY at the last candle, closed by the end-of-backtest SELL at that candle
C27_BuyAtLastCandle ==
    /\ impl = "route"
    /\ pc = "done"
    /\ Len(rt.trades) >= 2
    /\ LastOf(rt.trades).reason = <<"End of backtest">>
    /\ LastOf(rt.trades).timestamp = rt.trades[Len(rt.trades) - 1].timestamp

-----------------------------------------------------------------------------
(* C28: a candle touching both the stop-loss and the take-profit *)

\* C28: when the candle of a route step touches both the stop-loss and the
\* take-profit of the open position, the position is closed at the stop-loss price
\* with reason "Stop Loss"; and a step that exits at the stop-loss or the take-profit
\* logs that one SELL only and leaves no position open.
C28_StopLossFirst ==
    [][RouteStepInPosition =>
        /\ (HitsStopLoss /\ HitsTakeProfit) => ClosedAt(StopLossPrice, "Stop Loss")
        /\ (HitsStopLoss \/ HitsTakeProfit) =>
              /\ Len(rt'.trades) = Len(rt.trades) + 1
              /\ LastOf(rt'.trades).type = "SELL"
              /\ RSign(rt'.position) = 0
              /\ rt'.capital = RAdd(rt.capital, LastOf(rt'.trades).total)]_vars

\* a stop-loss exit on a candle whose high reached the take-profit as well
C28_Witness ==
    /\ impl = "route" /\ pc = "loop" /\ i > Warmup
    /\ rt.trades # <<>>
    /\ LastOf(rt.trades).reason = <<"Stop Loss">>
    /\ LastOf(rt.trades).timestamp = i - 1
    /\ LastOf(rt.trades).price = rt.stopLoss
    /\ RLe(RInt(candles[i].low), rt.stopLoss)
    /\ RGe(RInt(candles[i].high), rt.takeProfit)
    /\ RSign(rt.position) = 0

\* a take-profit exit on a candle carrying a buy signal: no position is opened
C28_NoReentry ==
    /\ impl = "route" /\ pc = "loop" /\ i > Warmup
    /\ rt.trades # <<>>
    /\ LastOf(rt.trades).reason = <<"Take Profit">>
    /\ LastOf(rt.trades).timestamp = i - 1
    /\ RSign(rt.position) = 0
    /\ route_Buy(rt, i - 1, candles[i], AtLen(ind.rsiValues, Len(candles), i - 1),
                 AtLen(ind.macdResult.histogram, Len(candles), i - 1),
                 AtLen(ind.macdResult.histogram, Len(candles), i - 2),
                 AtLen(ind.bollinger.lower, Len(candles), i - 1), config) # rt

-----------------------------------------------------------------------------
(* C24: drawdown tracking *)

RECURSIVE store_Equities(_, _, _)
\* the equities the store's loop tracks at its iterations lo..hi, started in state s
\* (store.ts line 1098)
store_Equities(s, lo, hi) ==
    IF lo > hi THEN <<>>
    ELSE LET next == store_LoopBody(s, lo, candles, config)
         IN <<IF RSign(next.position) > 0
              THEN RMul(next.position, RInt(candles[lo].close)) ELSE next.capital>>
            \o store_Equities(next, lo + 1, hi)

\* the equities tracked so far, one for each simulated candle
Equities ==
    IF impl = "route" THEN [k \in 1..Len(rt.equityCurve) |-> rt.equityCurve[k].value]
    ELSE IF pc = "start" THEN <<>>
    ELSE store_Equities(store_InitState(config), Warmup, i - 1)

\* the highest of the initial capital and the first k equities
PeakAt(eq, k) ==
    LET with == <<RInt(config.initialCapital)>> \o SubSeq(eq, 1, k)
    IN with[CHOOSE m \in 1..(k + 1) : \A n \in 1..(k + 1) : RGe(with[m], with[n])]

DrawdownAt(eq, k) == RDiv(RSub(PeakAt(eq, k), eq[k]), PeakAt(eq, k))

\* the largest drawdown over the simulated candles, 0 before the first
LargestDrawdown(eq) ==
    IF eq = <<>> THEN RInt(0)
    ELSE LET drawdowns == [k \in 1..Len(eq) |-> DrawdownAt(eq, k)]
             worst == CHOOSE m \in 1..Len(eq) :
                          \A n \in 1..Len(eq) : RGe(drawdowns[m], drawdowns[n])
         IN IF RSign(drawdowns[worst]) > 0 THEN drawdowns[worst] ELSE RInt(0)

TrackedPeak == IF impl = "route" THEN rt.peakEquity ELSE st.maxCapital

TrackedDrawdown == IF impl = "route" THEN rt.maxDrawdown ELSE st.maxDrawdown

\* peak, running drawdown and reported drawdown are the ones of the equities eq
DrawdownOf(eq) ==
    /\ pc \in {"loop", "done"} =>
          /\ TrackedPeak = PeakAt(eq, Len(eq))
          /\ \A k \in 1..Len(eq) : RGe(TrackedPeak, eq[k])
          /\ TrackedDrawdown = LargestDrawdown(eq)
    /\ (pc = "done" /\ Len(candles) >= Warmup) =>
          result.maxDrawdown = RMul(LargestDrawdown(eq), RInt(100))

DrawdownTracked == DrawdownOf(Equities)

\* C24 as stated: with initialCapital > 0 and non-negative prices the tracked peak is
\* at least the equity of every simulated candle, the reported maxDrawdown is 100
\* times the largest (peak - equity) / peak, and it lies in [0, 100].
C24_Original ==
    /\ DrawdownTracked
    /\ RGe(TrackedDrawdown, RInt(0))
    /\ RLe(TrackedDrawdown, RInt(1))

\* C24 amended: the tracked peak is at least the equity of every simulated candle and
\* the reported maxDrawdown is 100 times the largest (peak - equity) / peak, which is
\* never negative; it is at most 100 when positionSizePercent is between 0 and 100,
\* so that the cash and with it the equity never go below 0.
C24_Drawdown ==
    /\ DrawdownTracked
    /\ RGe(TrackedDrawdown, RInt(0))
    /\ config.positionSizePercent \in 0..100 => RLe(TrackedDrawdown, RInt(1))

\* the running drawdown never decreases
C24_Monotone ==
    [][RGe(IF impl = "route" THEN rt'.maxDrawdown ELSE st'.maxDrawdown, TrackedDrawdown)]_vars

\* a finished route backtest whose equity fell below an earlier peak and rose again
C24_Witness ==
    /\ impl = "route" /\ pc = "done"
    /\ config.positionSizePercent <= 100
    /\ RSign(rt.maxDrawdown) > 0
    /\ RLt(DrawdownAt(Equities, Len(Equities)), rt.maxDrawdown)
    /\ RSign(DrawdownAt(Equities, Len(Equities))) > 0

\* an equity below 0: ten times the capital was bought and the price fell
C24_NegativeEquity ==
    /\ impl = "route"
    /\ \E k \in 1..Len(Equities) : RSign(Equities[k]) < 0
    /\ RGt(rt.maxDrawdown, RInt(1))

-----------------------------------------------------------------------------
(* C23: the guards against a division by zero *)

Guarded == impl = "guards" /\ pc = "done"

\* null or a number, not NaN
Defined(v) == IsNull(v) \/ IsNum(v)

\* C23: calculateRSI yields 100 where the average loss is 0 (no close of the last
\* period changes is below the one before it), calculateBollingerBands yields a null
\* width exactly where the middle band is missing or 0, analyzeVolume yields a null
\* ratio exactly where the volume average is missing or 0, and no output is NaN.
C23_DivisionGuards ==
    Guarded =>
        \A k \in 1..Len(candles) :
            /\ Defined(ind.rsiArray[k])
            /\ (IsNum(ind.rsiArray[k]) /\ NoLossIn(Closes(candles), k - config.period, k - 1))
                  => ind.rsiArray[k] = Num(100 * Scale)
            /\ Defined(ind.bollinger.upper[k]) /\ Defined(ind.bollinger.middle[k])
            /\ Defined(ind.bollinger.lower[k]) /\ Defined(ind.bollinger.width[k])
            /\ IsNull(ind.bollinger.width[k])
                  <=> (IsNull(ind.bollinger.middle[k]) \/ ind.bollinger.middle[k] = Num(0))
            /\ Defined(ind.volumeAnalysis.sma[k]) /\ Defined(ind.volumeAnalysis.ratio[k])
            /\ IsNull(ind.volumeAnalysis.ratio[k])
                  <=> (IsNull(ind.volumeAnalysis.sma[k]) \/ ind.volumeAnalysis.sma[k] = Num(0))

\* a series in which all three guards act: no close falls, and the closes of one
\* window sum to 0 while they differ
C23_Witness ==
    /\ Guarded
    /\ \E k \in 1..Len(candles) :
          /\ ind.rsiArray[k] = Num(100 * Scale)
          /\ ind.bollinger.middle[k] = Num(0)
          /\ IsNum(ind.bollinger.upper[k]) /\ Val(ind.bollinger.upper[k]) > 0
          /\ IsNull(ind.bollinger.width[k])
          /\ ind.volumeAnalysis.sma[k] = Num(0)
          /\ IsNull(ind.volumeAnalysis.ratio[k])

-----------------------------------------------------------------------------
(* C25: rateLimit releases its callers one at a time *)

\* the callers released by one api, in the order of their release
ReleasedCallers(api) == [k \in 1..Len(result[api]) |-> result[api][k].caller]

\* releases in call order, consecutive releases at least minInterval apart
RateSafe ==
    impl = "rateLimit" =>
        \A api \in Apis :
            /\ ReleasedCallers(api) = SubSeq(rt[api], 1, Len(result[api]))
            /\ \A k \in 2..Len(result[api]) :
                  result[api][k].time - result[api][k - 1].time >= st[api].minInterval
            /\ \A c \in Callers : pc[c] = "released" <=>
                  \E other \in Apis : \E k \in 1..Len(result[other]) :
                      result[other][k].caller = c

\* C25: the callers of rateLimit for one api are released one at a time in call
\* order, two consecutive releases are at least that api's minInterval apart, and
\* every caller is released in the end.
C25_RateLimit ==
    /\ []RateSafe
    /\ \A c \in Callers : (impl = "rateLimit" /\ pc[c] = "waiting") ~> (pc[c] = "released")

\* three callers of one api, all released, the later ones held back by timers of
\* which one fired late
C25_Witness ==
    /\ impl = "rateLimit"
    /\ Len(result["coingecko"]) = MaxCallers
    /\ result["coingecko"][1].time <= CallDeadline
    /\ result["coingecko"][MaxCallers].time - result["coingecko"][1].time
          > 2 * st["coingecko"].minInterval

-----------------------------------------------------------------------------
(* C26: the callers released within one window *)

\* the releases within the window of length windowMs that ends at instant t
ReleasedWithin(t) ==
    {k \in 1..Len(result) : result[k].time > t - config.windowMs /\ result[k].time <= t}

\* C26: whatever the interleaving of the callers of waitForSlot, no more than
\* maxRequests of them are released within any window of length windowMs.
C26_WindowLimit ==
    impl = "waitForSlot" =>
        \A k \in 1..Len(result) :
            Cardinality(ReleasedWithin(result[k].time)) <= config.maxRequests

\* what does hold: no more than maxRequests callers are released without waiting
\* within any window
C26_ImmediateLimit ==
    impl = "waitForSlot" =>
        \A k \in 1..Len(result) :
            Cardinality({j \in ReleasedWithin(result[k].time) :
                            pc[result[j].caller].now = result[j].time}) <= config.maxRequests

\* two callers that found the window full, released at one instant
C26_ReleasedTogether ==
    /\ impl = "waitForSlot"
    /\ config.maxRequests = 1
    /\ \E c \in Callers, d \in Callers :
          /\ c # d
          /\ pc[c].at = "released" /\ pc[d].at = "released"
          /\ pc[c].wake > 0 /\ pc[d].wake > 0
          /\ \E k \in 1..Len(result), j \in 1..Len(result) :
                /\ result[k].caller = c /\ result[j].caller = d
                /\ result[k].time = result[j].time

(***************************************************************************)
(* C21  Opportunity scan                                                   *)
(***************************************************************************)
Scanned == impl \in {"POST", "scanForOpportunities"} /\ pc = "done"

\* The candles an instrument is analysed on: the route drops the volumes.
ScanCandles(crypto) ==
    IF impl = "POST" THEN NoVolume(crypto.candles) ELSE crypto.candles

AllowedSignals ==
    IF impl = "POST" THEN config.signalFilter ELSE {"BUY", "STRONG_BUY"}

InRange(rsi) ==
    impl = "POST" => IsNum(rsi) /\ config.rsiRange[1] <= rsi[1] /\ rsi[1] <= config.rsiRange[2]

Qualifies(a) == a.signal \in AllowedSignals /\ InRange(a.rsi)

\* The analysis of every instrument of the market with at least 50 candles.
RECURSIVE AnalysesFrom(_)
AnalysesFrom(k) ==
    IF k > Len(candles) THEN <<>>
    ELSE <<IF Len(candles[k].candles) >= 50
           THEN performTechnicalAnalysis(ScanCandles(candles[k])) ELSE Null>>
         \o AnalysesFrom(k + 1)

\* The opportunities of the market that pass every filter, in market order.
PassingOf(analyses) ==
    LET keep == {k \in 1..Len(candles) : analyses[k] # Null /\ Qualifies(analyses[k])}
        nth(j) == CHOOSE k \in keep : Cardinality({x \in keep : x < k}) = j - 1
    IN [j \in 1..Cardinality(keep) |-> Opportunity(candles[nth(j)], analyses[nth(j)])]

Passing == PassingOf(AnalysesFrom(1))

AtLeast(list, score) ==
    Cardinality({k \in 1..Len(list) : list[k].signalScore >= score})

Instruments(symbol) == {k \in 1..Len(candles) : candles[k].symbol = symbol}

\* `returned' are the highest-scoring `Len(returned)' entries of `passing'
HighestOf(returned, passing) ==
    /\ \A k \in 1..Len(returned) : \E j \in 1..Len(passing) : passing[j] = returned[k]
    /\ \A j \in 1..Len(passing) :
          AtLeast(returned, passing[j].signalScore)
              = Min(Len(returned), AtLeast(passing, passing[j].signalScore))

ScanContract(returned, passing) ==
    /\ \A k \in 1..Len(returned) :
          /\ \E m \in Instruments(returned[k].symbol) : Len(candles[m].candles) >= 50
          /\ returned[k].signal \in AllowedSignals
          /\ InRange(returned[k].rsi)
    /\ \A k \in 1..Len(returned) - 1 : returned[k].signalScore >= returned[k + 1].signalScore
    /\ HighestOf(returned, passing)
    /\ IF impl = "POST" THEN Len(returned) = Min(config.limit, Len(passing))
       ELSE Len(returned) = Len(passing)

C21_Scanner ==
    /\ Scanned
    /\ impl = "scanForOpportunities"
    /\ Len(result) = 2
    /\ Len(candles) = 3
    /\ result # Passing

====
